---- MODULE Spec2Model ----
(***************************************************************************)
(* Model of the libnfc PN53x protocol engine and its transports.           *)
(*                                                                         *)
(*   - pn53x_usb_transceive        (drivers/pn53x_usb.c)                   *)
(*   - dev_pn532_uart_transceive   (trunk/src/dev_pn532_uart.c)            *)
(*   - dev_arygon_transceive       (dev_arygon.c)                          *)
(*   - pn53x_transceive_callback, pn53x_transceive,                        *)
(*     pn53x_wrap_frame, pn53x_unwrap_frame   (chips/pn53x.c)              *)
(*   - pn53x_decode_target_data, pn53x_InAutoPoll   (chips/pn53x.c)        *)
(*   - rs232_open .. rs232_send    (trunk/src/rs232.c)                     *)
(*   - nfc_list_devices, nfc_open, nfc_close, nfc_initiator_init,          *)
(*     nfc_target_init, nfc_initiator_list_passive_targets,                *)
(*     nfc_initiator_poll_dep_target   (nfc.c)                             *)
(*   - dev_pn532_uart_connect      (trunk/src/dev_pn532_uart.c)            *)
(*   - pn53x_get_reg, pn53x_set_reg, pn53x_set_tx_bits   (chips/pn53x.c)   *)
(*                                                                         *)
(* Bytes are integers 0..255; every store into a byte_t is reduced         *)
(* modulo 256.  C arrays are modelled as sequences (index i of the C       *)
(* array is element i+1 of the sequence).                                  *)
(***************************************************************************)
EXTENDS Integers, Sequences, FiniteSets, TLC

(***************************************************************************)
(* Bounds of the model (not program constants).                            *)
(***************************************************************************)
\* number of argument bytes that follow D4 <opcode> in the short commands
MaxTxArgs == 2
\* number of data bytes d1..dn in the short response frames
MaxRxData == 2
\* raw bit frames: number of data bytes enumerated exhaustively
MaxBitBytes == 2
\* raw bit frames: number of data bytes of the longest patterned stream
MaxLongBytes == 9

(***************************************************************************)
(* Program constants.                                                      *)
(***************************************************************************)
BUFFER_LENGTH == 256
\* driver-level error codes; the header that gives them their numbers is
\* not part of the sources, only their names are used (pn53x.c, pn53x_usb.c).
\* All that the code relies on is that they differ from each other and from
\* the 6-bit chip status codes 0x00..0x3f.
DENACK == 256
DEACKMISMATCH == 512
DEISERRFRAME == 768
DEINVAL == 8192
DEIO == 4096

(***************************************************************************)
(* Byte arithmetic.                                                        *)
(***************************************************************************)
Byte(x) == x % 256

RECURSIVE BitAnd(_, _)
BitAnd(a, b) ==
  IF a = 0 \/ b = 0 THEN 0
  ELSE (a % 2) * (b % 2) + 2 * BitAnd(a \div 2, b \div 2)

RECURSIVE BitOr(_, _)
BitOr(a, b) ==
  IF a = 0 THEN b
  ELSE IF b = 0 THEN a
  ELSE (IF (a % 2) + (b % 2) > 0 THEN 1 ELSE 0) + 2 * BitOr(a \div 2, b \div 2)

\* (byte_t)(b << k)
Shl(b, k) == Byte(b * (2 ^ k))
\* b >> k
Shr(b, k) == b \div (2 ^ k)

\* store v at C index i of array a (the array grows when i is its length)
Store(a, i, v) ==
  IF i < Len(a) THEN [a EXCEPT ![i + 1] = v] ELSE Append(a, v)

(***************************************************************************)
(* Standard information frame, as the three transports build it.           *)
(***************************************************************************)
\* the loop "abtTx[szTxLen+5] -= abtTx[uiPos+5]" started from 0: every step
\* is a byte subtraction, so the result is minus the sum of the bytes,
\* reduced modulo 256 (the sum is split in halves to keep the evaluation
\* shallow for 256-byte commands)
RECURSIVE SumBytes(_, _, _)
SumBytes(p, lo, hi) ==
  IF lo > hi THEN 0
  ELSE IF lo = hi THEN p[lo]
  ELSE LET mid == (lo + hi) \div 2
       IN  SumBytes(p, lo, mid) + SumBytes(p, mid + 1, hi)

DcsLoop(p) == Byte(0 - SumBytes(p, 1, Len(p)))

\* pn53x_usb_transceive: the szTxLen+7 bytes the code stores in abtTx[]
UsbFrame(p) ==
  LET len == Byte(Len(p))
  IN  <<0, 0, 255, len, Byte(256 - len)>> \o p \o <<DcsLoop(p), 0>>

\* dev_pn532_uart_transceive: the szTxLen+7 bytes the code stores in abtTxBuf[]
UartFrame(p) ==
  LET len == Byte(Len(p))
  IN  <<0, 0, 255, len, Byte(BUFFER_LENGTH - len)>> \o p \o <<DcsLoop(p), 0>>

\* dev_arygon_transceive: the szTxLen+8 bytes the code stores in abtTxBuf[]
DEV_ARYGON_PROTOCOL_TAMA == 50
ArygonFrame(p) ==
  LET len == Byte(Len(p))
  IN  <<DEV_ARYGON_PROTOCOL_TAMA, 0, 0, 255, len, Byte(BUFFER_LENGTH - len)>>
        \o p \o <<DcsLoop(p), 0>>

\* What is read back from a BUFFER_LENGTH-byte array in which Len(f) bytes
\* were stored: bytes stored past the end of the array are undefined
\* behaviour; they either survive in the adjacent memory (keep) or read back
\* as g.
OutOfArray(f, keep, g) ==
  [i \in 1..Len(f) |-> IF i > BUFFER_LENGTH /\ ~keep THEN g ELSE f[i]]

pn53x_ack_frame == <<0, 0, 255, 0, 255, 0>>
pn53x_nack_frame == <<0, 0, 255, 255, 0, 0>>

\* pn53x_transceive_callback without the memcmp against pn53x_ack_frame:
\* every 6-byte frame that is not the NACK frame passes as ACK
pn53x_transceive_callback_lenOnly(pbtRxFrame, cur) ==
  IF Len(pbtRxFrame) = Len(pn53x_ack_frame) /\ pbtRxFrame # pn53x_nack_frame
    THEN [ok |-> TRUE, err |-> cur]
  ELSE IF Len(pbtRxFrame) = Len(pn53x_ack_frame)
    THEN [ok |-> FALSE, err |-> DENACK]
  ELSE [ok |-> FALSE, err |-> DEACKMISMATCH]

(***************************************************************************)
(* pn53x_transceive_callback: check of the frame read in the ACK slot.     *)
(* cur is the handle's iLastError on entry; the result gives the return    *)
(* value and the handle's iLastError on exit (build without DEBUG).        *)
(***************************************************************************)
pn53x_transceive_callback(pbtRxFrame, cur) ==
  IF Len(pbtRxFrame) = Len(pn53x_ack_frame) /\ pbtRxFrame = pn53x_ack_frame
    THEN [ok |-> TRUE, err |-> cur]
  ELSE IF Len(pbtRxFrame) = Len(pn53x_ack_frame) /\ pbtRxFrame = pn53x_nack_frame
    THEN [ok |-> FALSE, err |-> DENACK]
  ELSE [ok |-> FALSE, err |-> DEACKMISMATCH]

(***************************************************************************)
(* pn53x_transceive: the switch on pbtTx[1] after the driver succeeded.    *)
(***************************************************************************)
StatusOpcodes ==
  {22, 64, 66, 68, 70, 78, 80, 82, 84, 86, 134, 136, 142, 144, 146, 148}

\* the status switch with the mask 0x7f instead of 0x3f
Pn53xStatus_mask7f(opcode, rxByte0) ==
  IF opcode \in StatusOpcodes THEN BitAnd(rxByte0, 127) ELSE 0

Pn53xStatus(opcode, rxByte0) ==
  IF opcode \in StatusOpcodes THEN BitAnd(rxByte0, 63) ELSE 0

(***************************************************************************)
(* Inputs: chip-level commands handed to transceive.                       *)
(***************************************************************************)
SeqsUpTo(S, n) == UNION {[1..k -> S] : k \in 0..n}

TxArgBytes == {1, 255}
ShortOps == {2, 6, 64}
\* lengths around the capacity of the transmit arrays and up to the longest
\* command pn53x_InListPassiveTarget can hand over (abtCmd[264])
LongLens == {BUFFER_LENGTH - 8, BUFFER_LENGTH - 7, BUFFER_LENGTH - 6,
             BUFFER_LENGTH - 1, BUFFER_LENGTH, BUFFER_LENGTH + 8}

LongPayload(n) ==
  [i \in 1..n |-> IF i = 1 THEN 212 ELSE IF i = 2 THEN 64 ELSE Byte(7 * i + 3)]

ShortPayloads ==
  {<<212, op>> \o a : op \in ShortOps, a \in SeqsUpTo(TxArgBytes, MaxTxArgs)}
LongPayloads == {LongPayload(n) : n \in LongLens}
OpcodePayloads == {<<212, op>> : op \in 0..255}

(***************************************************************************)
(* Environment: what the chip may answer.                                  *)
(***************************************************************************)
\* 0xC1 has both bits above the 6-bit status set
RxDataBytes == {0, 193}
RxDatas == SeqsUpTo(RxDataBytes, MaxRxData)
LongRxLens == {BUFFER_LENGTH - 15, BUFFER_LENGTH - 14,
               BUFFER_LENGTH - 9, BUFFER_LENGTH - 8}
LongRxData(n) == [i \in 1..n |-> Byte(5 * i + 1)]

\* a response frame with the given LCS and DCS offsets (0 = correct)
ChipFrame(dir, code, d, lcsOff, dcsOff) ==
  LET body == <<dir, code>> \o d
      len  == Byte(Len(body))
  IN  <<0, 0, 255, len, Byte(256 - len + lcsOff)>> \o body
        \o <<Byte(DcsLoop(body) + dcsOff), 0>>

SyntaxErrorFrame == <<0, 0, 255, 1, 255, 127, 129, 0>>

\* well-formed answers to command p
GoodFrames(p) == {ChipFrame(213, Byte(p[2] + 1), d, 0, 0) : d \in RxDatas}

\* every frame the chip may put in the response slot: well-formed answers,
\* answers that fill or exceed the receive arrays, answers with a wrong LCS,
\* a wrong DCS or a wrong direction byte, a syntax error frame, a second ACK
RespFrames(p) ==
  LET code == Byte(p[2] + 1)
  IN  GoodFrames(p)
        \cup {ChipFrame(213, code, LongRxData(n), 0, 0) : n \in LongRxLens}
        \cup {ChipFrame(213, code, d, 1, 0) : d \in RxDatas}
        \cup {ChipFrame(213, code, d, 0, 1) : d \in RxDatas}
        \cup {ChipFrame(127, code, d, 0, 0) : d \in RxDatas}
        \cup {SyntaxErrorFrame, pn53x_ack_frame}

\* the sweep over all 256 opcodes is answered by well-formed frames and the
\* syntax error frame only
RespFramesFor(p) ==
  IF p \in ShortPayloads \cup LongPayloads THEN RespFrames(p)
  ELSE GoodFrames(p) \cup {SyntaxErrorFrame}

AckSlotFrames(p) ==
  {pn53x_ack_frame, pn53x_nack_frame,
   <<0, 0, 255, 0, 255>>, <<0, 0, 255, 0, 254, 0>>, <<0, 0, 255, 0, 255, 0, 0>>,
   SyntaxErrorFrame, ChipFrame(213, Byte(p[2] + 1), <<0>>, 0, 0)}

\* contents of a receive array that no read has stored yet
StaleBytes == {0, 1}
\* contents of pnd->iLastError after connect (the field is not initialised)
UninitErrors == {0, 1}

\* usb_bulk_read into abtRx[BUFFER_LENGTH]: a packet longer than the array
\* is cut to BUFFER_LENGTH bytes or reported as an error by the USB stack
UsbBulkRead(f) ==
  IF Len(f) > BUFFER_LENGTH
    THEN {[ok |-> FALSE, bytes |-> <<>>],
          [ok |-> TRUE, bytes |-> SubSeq(f, 1, BUFFER_LENGTH)]}
    ELSE {[ok |-> TRUE, bytes |-> f]}

\* rs232_receive: nothing available is a failure, otherwise every available
\* byte is read into the caller's array
rs232_receive(avail) ==
  IF Len(avail) = 0 THEN [ok |-> FALSE, bytes |-> <<>>]
  ELSE [ok |-> TRUE, bytes |-> avail]

(***************************************************************************)
(* State of one device handle and of the call in progress on it.           *)
(***************************************************************************)
VARIABLES
  pc,            \* position of the call: idle, usb_ack, usb_resp, uart_rx,
                 \* arygon_rx, done
  driver,        \* transport of the call: pn53x_usb, pn532_uart, arygon
  layer,         \* "chip": entered through pn53x_transceive, "driver": the
                 \* driver's transceive was called directly
  pbtTx,         \* the chip-level command of the call
  wantRx,        \* pbtRx != NULL && pszRxLen != NULL at the driver
  io,            \* transfers of the call in order: [dir, bytes]
  txOverflow,    \* the frame was stored past the end of the transmit array
  ret,           \* value returned to the caller (meaningful when pc = done)
  drvRet,        \* value returned by the driver's transceive
  drvLastError,  \* pnd->iLastError when the driver's transceive returned
  pbtRx,         \* bytes copied to the caller's receive array
  delivered,     \* *pszRxLen was stored and pbtRx filled
  rxByte0,       \* pbtRx[0] as pn53x_transceive reads it after the driver
  iLastError,    \* pnd->iLastError
  \* raw bit frames (pn53x_wrap_frame / pn53x_unwrap_frame)
  bpc, bitTx, bitTxPar, szTxBits, bitFrame, szFrameBits, wrapRet,
  bitRx, bitRxPar, szRxBits, unwrapRet, frameRead,
  \* decoding of one target (pn53x_decode_target_data)
  dpc,           \* off, start, done
  decRaw,        \* the buffer pbtRawData points to; its length is handed
                 \* over as szDataLen
  decNc,         \* nc: the chip variant
  decNtt,        \* ntt: the declared target type
  decRet,        \* the value returned
  decRead,       \* number of bytes of the buffer the call reads, counted
                 \* from its start (highest index read, plus one)
  decInfo,       \* *pnti as the call leaves it
  \* one handle polled with pn53x_InAutoPoll
  ppc,           \* off, idle, done
  pollNc,        \* pnd->nc
  pollErr,       \* pnd->iLastError
  pollTx,        \* the command built for the transport (pbtTxInAutoPoll)
  pollDrv,       \* what pnd->pdc->transceive did in the call, if called
  pollRet,       \* the value returned
  pollFound,     \* *pszTargetFound (-1: not stored)
  pollTargets,   \* pntTargets[] entries stored by the call
  \* properties of one handle (nfc_device_set_property_bool)
  hpc,           \* off, idle, done
  bCrc,          \* pnd->bCrc
  bPar,          \* pnd->bPar
  chipCfg,       \* what the chip's registers hold, per property
  propCall,      \* the call just made: arguments, result, flags on entry
  \* one serial port and the processes that use it through rs232.c
  port,          \* the terminal settings the port carries
  sp,            \* per process: its serial_port_unix and how far its
                 \* rs232_open has come
  serCall,       \* per process: the call it is in, or made last
  serLast,       \* the process that made the latest step
  sched,         \* "sequential": a call runs to its end before another
                 \* process makes a call
  \* one open serial port read and written with rs232_receive / rs232_send
  rwpc,          \* off, idle, done
  rwCall,        \* the call just made: what the OS did, what was returned
  \* the library interface of nfc.c on one process
  npc,           \* off, idle, select (inside the loop of
                 \* nfc_initiator_list_passive_targets), done
  nfcCall,       \* the call: its arguments, what the environment did, the
                 \* value returned
  nfcLog,        \* the calls made to drivers by the call, in order
  nfcOut,        \* the caller's output array: index -> entry stored
  \* one serial port with a PN532 behind it (dev_pn532_uart.c)
  wpc,           \* off, closed (no handle), open (connect gave a handle)
  wake,          \* what the connect that gave the handle did
  \* the registers of the chip behind one handle (pn53x_set_reg,
  \* pn53x_set_tx_bits)
  rgpc,          \* off, idle, done
  regChip,       \* register -> the byte the chip holds
  ui8TxBits,     \* pnd->ui8TxBits
  txBitsWritten, \* the TX-last-bits value of the latest write to the
                 \* bit-framing register that was reported as done
  regCall        \* the call: its arguments, what the transport did, the
                 \* commands issued, the value returned

callVars == <<pc, driver, layer, pbtTx, wantRx, io, txOverflow, ret, drvRet,
              drvLastError, pbtRx, delivered, rxByte0, iLastError>>
bitVars == <<bpc, bitTx, bitTxPar, szTxBits, bitFrame, szFrameBits, wrapRet,
             bitRx, bitRxPar, szRxBits, unwrapRet, frameRead>>
decVars == <<dpc, decRaw, decNc, decNtt, decRet, decRead, decInfo>>
pollVars == <<ppc, pollNc, pollErr, pollTx, pollDrv, pollRet, pollFound,
              pollTargets>>
propVars == <<hpc, bCrc, bPar, chipCfg, propCall>>
serVars == <<port, sp, serCall, serLast, sched>>
sioVars == <<rwpc, rwCall>>
nfcVars == <<npc, nfcCall, nfcLog, nfcOut>>
wakeVars == <<wpc, wake>>
regVars == <<rgpc, regChip, ui8TxBits, txBitsWritten, regCall>>
vars == <<callVars, bitVars, decVars, pollVars, propVars, serVars, sioVars,
          nfcVars, wakeVars, regVars>>
\* everything but the state of the call / of the bit frame / of the decoder /
\* of the polled handle
exceptCall == <<bitVars, decVars, pollVars, propVars, serVars, sioVars,
                nfcVars, wakeVars, regVars>>
exceptBits == <<callVars, decVars, pollVars, propVars, serVars, sioVars,
                nfcVars, wakeVars, regVars>>
exceptDec == <<callVars, bitVars, pollVars, propVars, serVars, sioVars,
               nfcVars, wakeVars, regVars>>
exceptPoll == <<callVars, bitVars, decVars, propVars, serVars, sioVars,
                nfcVars, wakeVars, regVars>>
exceptProp == <<callVars, bitVars, decVars, pollVars, serVars, sioVars,
                nfcVars, wakeVars, regVars>>
exceptSer == <<callVars, bitVars, decVars, pollVars, propVars, sioVars,
               nfcVars, wakeVars, regVars>>
exceptSio == <<callVars, bitVars, decVars, pollVars, propVars, serVars,
               nfcVars, wakeVars, regVars>>
exceptNfc == <<callVars, bitVars, decVars, pollVars, propVars, serVars,
               sioVars, wakeVars, regVars>>
exceptWake == <<callVars, bitVars, decVars, pollVars, propVars, serVars,
                sioVars, nfcVars, regVars>>
exceptReg == <<callVars, bitVars, decVars, pollVars, propVars, serVars,
               sioVars, nfcVars, wakeVars>>

Tx(f) == [dir |-> "tx", bytes |-> f]
Rx(f) == [dir |-> "rx", bytes |-> f]

\* no raw bit frame is being processed
BitIdle ==
  /\ bpc = "off" /\ bitTx = <<>> /\ bitTxPar = <<>> /\ szTxBits = 0
  /\ bitFrame = <<>> /\ szFrameBits = 0 /\ wrapRet = FALSE
  /\ bitRx = <<>> /\ bitRxPar = <<>> /\ szRxBits = 0 /\ unwrapRet = FALSE
  /\ frameRead = 0

\* no target is being decoded
DecIdle ==
  /\ dpc = "off" /\ decRaw = <<>> /\ decNc = "none" /\ decNtt = "none"
  /\ decRet = FALSE /\ decRead = 0 /\ decInfo = [kind |-> "none"]

\* no handle is being polled
PollIdle ==
  /\ ppc = "off" /\ pollNc = "none" /\ pollErr = 0 /\ pollTx = <<>>
  /\ pollDrv = [called |-> FALSE] /\ pollRet = FALSE /\ pollFound = -1
  /\ pollTargets = <<>>

\* no property is being set
PropIdle ==
  /\ hpc = "off" /\ bCrc = TRUE /\ bPar = TRUE /\ chipCfg = <<>>
  /\ propCall = [made |-> FALSE]

\* no serial port is in use
SerIdle ==
  /\ port = [claimed |-> FALSE, line |-> "off", speed |-> 0]
  /\ sp = <<>> /\ serCall = <<>> /\ serLast = "none" /\ sched = "off"

\* no serial transfer is being made
SioIdle == rwpc = "off" /\ rwCall = [op |-> "none"]

\* the library interface is not in use
NfcIdle ==
  /\ npc = "off" /\ nfcCall = [op |-> "none"] /\ nfcLog = <<>>
  /\ nfcOut = <<>>

\* no PN532 on a serial port is in use
WakeIdle == wpc = "off" /\ wake = [done |-> FALSE]

\* no register is being accessed
RegIdle ==
  /\ rgpc = "off" /\ regChip = <<>> /\ ui8TxBits = 0 /\ txBitsWritten = 0
  /\ regCall = [fn |-> "none"]

\* no command is being processed
CallIdle ==
  /\ pc = "off" /\ driver = "none" /\ layer = "none" /\ pbtTx = <<>>
  /\ wantRx = FALSE /\ io = <<>> /\ txOverflow = FALSE /\ ret = FALSE
  /\ drvRet = FALSE /\ drvLastError = 0 /\ pbtRx = <<>> /\ delivered = FALSE
  /\ rxByte0 = 0 /\ iLastError = 0

\* state right after pn53x_usb_connect / dev_pn532_uart_connect /
\* dev_arygon_connect: no call in progress
Init ==
  /\ pc = "idle" /\ driver = "none" /\ layer = "none" /\ pbtTx = <<>>
  /\ wantRx = FALSE /\ io = <<>> /\ txOverflow = FALSE /\ ret = FALSE
  /\ drvRet = FALSE /\ pbtRx = <<>> /\ delivered = FALSE /\ rxByte0 = 0
  /\ iLastError \in UninitErrors
  /\ drvLastError = iLastError
  /\ BitIdle
  /\ DecIdle
  /\ PollIdle
  /\ PropIdle
  /\ SerIdle
  /\ SioIdle
  /\ NfcIdle
  /\ WakeIdle
  /\ RegIdle

(***************************************************************************)
(* Entry and exit of a call.                                               *)
(***************************************************************************)
\* a command is handed to transceive: the results of the previous call are
\* forgotten, the handle keeps its iLastError
Enter(d, lay, p, w, overflow) ==
  /\ driver' = d /\ layer' = lay /\ pbtTx' = p /\ wantRx' = w
  /\ txOverflow' = overflow

\* the driver's transceive returns okv with pnd->iLastError = err; when the
\* call came through pn53x_transceive, its epilogue runs before the caller
\* sees the result
DriverReturn(okv, err, out, dlv) ==
  /\ pc' = "done"
  /\ drvRet' = okv
  /\ drvLastError' = err
  /\ pbtRx' = out
  /\ delivered' = dlv
  /\ \E stale \in StaleBytes :
       rxByte0' = IF dlv /\ Len(out) > 0 THEN out[1] ELSE stale
  /\ IF layer' = "chip"
       THEN IF okv
              THEN /\ iLastError' = Pn53xStatus(pbtTx'[2], rxByte0')
                   /\ ret' = (iLastError' = 0)
              ELSE /\ iLastError' = err
                   /\ ret' = FALSE
       ELSE /\ iLastError' = err
            /\ ret' = okv

\* the call is blocked in a read: nothing has been returned yet
Blocked(where) ==
  /\ pc' = where
  /\ ret' = FALSE /\ drvRet' = FALSE /\ pbtRx' = <<>> /\ delivered' = FALSE
  /\ rxByte0' = 0
  /\ UNCHANGED <<iLastError, drvLastError>>

(***************************************************************************)
(* pn53x_usb_transceive, alone or under pn53x_transceive.                  *)
(***************************************************************************)
\* the end of pn53x_usb_transceive copying from abtRx+5: the direction byte
\* and the response code are not stripped
UsbExtract_keepHeader(abtRx) ==
  LET n == Len(abtRx) - 7 - 2
  IN  IF ~wantRx
        THEN DriverReturn(TRUE, iLastError, <<>>, FALSE)
      ELSE IF Len(abtRx) < 9
        THEN DriverReturn(FALSE, DEINVAL, <<>>, FALSE)
      ELSE IF abtRx[6] = 213 /\ abtRx[7] = 7 /\ n = 2
        THEN DriverReturn(TRUE, iLastError, SubSeq(abtRx, 9, 9), TRUE)
      ELSE DriverReturn(TRUE,
                        IF abtRx[6] # pbtTx[1] + 1 THEN DEISERRFRAME ELSE iLastError,
                        SubSeq(abtRx, 6, 5 + n), TRUE)

\* the end of pn53x_usb_transceive, after the host's ACK: the answer is cut
\* out of the ret bytes that the second usb_bulk_read stored in abtRx[]
UsbExtract(abtRx) ==
  LET n == Len(abtRx) - 7 - 2
  IN  IF ~wantRx
        THEN DriverReturn(TRUE, iLastError, <<>>, FALSE)
      ELSE IF Len(abtRx) < 9
        THEN DriverReturn(FALSE, DEINVAL, <<>>, FALSE)
      ELSE IF abtRx[6] = 213 /\ abtRx[7] = 7 /\ n = 2
        THEN DriverReturn(TRUE, iLastError, SubSeq(abtRx, 9, 9), TRUE)
      ELSE DriverReturn(TRUE,
                        IF abtRx[6] # pbtTx[1] + 1 THEN DEISERRFRAME ELSE iLastError,
                        SubSeq(abtRx, 8, 7 + n), TRUE)

\* build the frame and usb_bulk_write it
UsbSend ==
  /\ pc = "idle"
  /\ UNCHANGED exceptCall
  /\ \E lay \in {"chip", "driver"} :
     \E p \in (IF lay = "chip" THEN OpcodePayloads \cup ShortPayloads \cup LongPayloads
                ELSE ShortPayloads) :
     \E w \in (IF lay = "chip" THEN {TRUE} ELSE BOOLEAN) :
     \E written \in BOOLEAN, keep \in BOOLEAN, g \in StaleBytes :
        /\ Enter("pn53x_usb", lay, p, w, Len(UsbFrame(p)) > BUFFER_LENGTH)
        /\ IF written
             THEN /\ io' = <<Tx(OutOfArray(UsbFrame(p), keep, g))>>
                  /\ Blocked("usb_ack")
             ELSE /\ io' = <<>>
                  /\ DriverReturn(FALSE, DEIO, <<>>, FALSE)

\* first usb_bulk_read and pn53x_transceive_callback
UsbReadAck ==
  /\ pc = "usb_ack"
  /\ UNCHANGED <<driver, layer, pbtTx, wantRx, txOverflow>>
  /\ UNCHANGED exceptCall
  /\ \E f \in AckSlotFrames(pbtTx), failed \in BOOLEAN :
     \E r \in (IF failed THEN {[ok |-> FALSE, bytes |-> <<>>]} ELSE UsbBulkRead(f)) :
       IF ~r.ok
         THEN /\ DriverReturn(FALSE, DEIO, <<>>, FALSE)
              /\ UNCHANGED io
         ELSE LET cb == pn53x_transceive_callback(r.bytes, iLastError)
              IN  /\ io' = Append(io, Rx(f))
                  /\ IF cb.ok
                       THEN /\ pc' = "usb_resp"
                            /\ UNCHANGED <<ret, drvRet, drvLastError, pbtRx,
                                           delivered, rxByte0, iLastError>>
                       ELSE DriverReturn(FALSE, cb.err, <<>>, FALSE)

\* second usb_bulk_read, the host's ACK, and the extraction of the answer
UsbReadResp ==
  /\ pc = "usb_resp"
  /\ UNCHANGED <<driver, layer, pbtTx, wantRx, txOverflow>>
  /\ UNCHANGED exceptCall
  /\ \E f \in RespFramesFor(pbtTx), failed \in BOOLEAN :
     \E r \in (IF failed THEN {[ok |-> FALSE, bytes |-> <<>>]} ELSE UsbBulkRead(f)) :
       IF ~r.ok
         THEN /\ DriverReturn(FALSE, DEIO, <<>>, FALSE)
              /\ UNCHANGED io
         ELSE /\ io' = io \o <<Rx(f), Tx(pn53x_ack_frame)>>
              /\ UsbExtract(r.bytes)

(***************************************************************************)
(* dev_pn532_uart_transceive and dev_arygon_transceive.                    *)
(***************************************************************************)
\* what the serial port holds when rs232_receive is called, 50 ms after the
\* command: nothing, the frame of the ACK slot alone, or that frame followed
\* by the response frame
SerialAvail(p) ==
  {<<>>} \cup AckSlotFrames(p)
    \cup {pn53x_ack_frame \o r : r \in RespFrames(p)}
    \cup {a \o r : a \in AckSlotFrames(p), r \in {ChipFrame(213, Byte(p[2] + 1), <<0, 193>>, 0, 0)}}

\* the part of both serial drivers after rs232_receive: the answer is cut
\* out of abtRxBuf[] at fixed offsets
SerialExtract(rcv) ==
  IF ~rcv.ok
    THEN DriverReturn(FALSE, iLastError, <<>>, FALSE)
  ELSE IF ~wantRx
    THEN DriverReturn(TRUE, iLastError, <<>>, FALSE)
  ELSE IF Len(rcv.bytes) < 15
    THEN DriverReturn(FALSE, iLastError, <<>>, FALSE)
  ELSE DriverReturn(TRUE, iLastError,
                    SubSeq(rcv.bytes, 14, 13 + (Len(rcv.bytes) - 15)), TRUE)

\* build the frame and rs232_send it
UartSend ==
  /\ pc = "idle"
  /\ UNCHANGED exceptCall
  /\ \E p \in ShortPayloads \cup LongPayloads, w \in BOOLEAN :
     \E sent \in BOOLEAN, keep \in BOOLEAN, g \in StaleBytes :
        /\ Enter("pn532_uart", "driver", p, w, Len(UartFrame(p)) > BUFFER_LENGTH)
        /\ IF sent
             THEN /\ io' = <<Tx(OutOfArray(UartFrame(p), keep, g))>>
                  /\ Blocked("uart_rx")
             ELSE /\ io' = <<>>
                  /\ DriverReturn(FALSE, iLastError, <<>>, FALSE)

\* rs232_receive and the extraction of the answer
UartReceive ==
  /\ pc = "uart_rx"
  /\ UNCHANGED <<driver, layer, pbtTx, wantRx, txOverflow>>
  /\ UNCHANGED exceptCall
  /\ \E avail \in SerialAvail(pbtTx), keep \in BOOLEAN, g \in StaleBytes :
       LET rcv == rs232_receive(avail)
       IN  /\ io' = IF rcv.ok THEN Append(io, Rx(avail)) ELSE io
           /\ SerialExtract([rcv EXCEPT !.bytes = OutOfArray(rcv.bytes, keep, g)])

ArygonSend ==
  /\ pc = "idle"
  /\ UNCHANGED exceptCall
  /\ \E p \in ShortPayloads \cup LongPayloads, w \in BOOLEAN :
     \E sent \in BOOLEAN, keep \in BOOLEAN, g \in StaleBytes :
        /\ Enter("arygon", "driver", p, w, Len(ArygonFrame(p)) > BUFFER_LENGTH)
        /\ IF sent
             THEN /\ io' = <<Tx(OutOfArray(ArygonFrame(p), keep, g))>>
                  /\ Blocked("arygon_rx")
             ELSE /\ io' = <<>>
                  /\ DriverReturn(FALSE, iLastError, <<>>, FALSE)

ArygonReceive ==
  /\ pc = "arygon_rx"
  /\ UNCHANGED <<driver, layer, pbtTx, wantRx, txOverflow>>
  /\ UNCHANGED exceptCall
  /\ \E avail \in SerialAvail(pbtTx), keep \in BOOLEAN, g \in StaleBytes :
       LET rcv == rs232_receive(avail)
       IN  /\ io' = IF rcv.ok THEN Append(io, Rx(avail)) ELSE io
           /\ SerialExtract([rcv EXCEPT !.bytes = OutOfArray(rcv.bytes, keep, g)])

\* the caller has taken the result; the handle is ready for the next
\* command and keeps its iLastError
Release ==
  /\ pc = "done"
  /\ pc' = "idle" /\ driver' = "none" /\ layer' = "none" /\ pbtTx' = <<>>
  /\ wantRx' = FALSE /\ io' = <<>> /\ txOverflow' = FALSE /\ ret' = FALSE
  /\ drvRet' = FALSE /\ pbtRx' = <<>> /\ delivered' = FALSE /\ rxByte0' = 0
  /\ drvLastError' = iLastError
  /\ UNCHANGED iLastError
  /\ UNCHANGED exceptCall

(***************************************************************************)
(* Raw bit frames with separate parity bits.                               *)
(***************************************************************************)
\* mirror() of mirror-subr.c: the byte with its 8 bits in reverse order
mirror(b) ==
  LET bit(i) == (b \div (2 ^ i)) % 2
  IN  128 * bit(0) + 64 * bit(1) + 32 * bit(2) + 16 * bit(3)
        + 8 * bit(4) + 4 * bit(5) + 2 * bit(6) + bit(7)

\* the loops of pn53x_wrap_frame; frame holds the bytes stored through
\* pbtFrame so far and fpos is the C index pbtFrame points at
RECURSIVE WrapLoop(_, _, _, _, _, _, _, _)
WrapLoop(tx, par, frame, fpos, btFrame, uiBitPos, uiDataPos, szBitsLeft) ==
  IF uiBitPos = 8
    THEN WrapLoop(tx, par, frame, fpos + 1, 0, 0, uiDataPos, szBitsLeft)
    ELSE LET btData == mirror(tx[uiDataPos + 1])
             first  == BitOr(btFrame, Shr(btData, uiBitPos))
             frame1 == Store(frame, fpos, mirror(first))
             second == BitOr(Shl(btData, 8 - uiBitPos),
                             Shl(BitAnd(par[uiDataPos + 1], 1), 7 - uiBitPos))
             frame2 == Store(frame1, fpos + 1, mirror(second))
         IN  IF szBitsLeft < 9
               THEN frame2
               ELSE WrapLoop(tx, par, frame2, fpos + 1, second, uiBitPos + 1,
                             uiDataPos + 1, szBitsLeft - 8)

\* pn53x_wrap_frame that never sets the parity bits (pbtTxPar is ignored)
pn53x_wrap_frame_noParity(tx, bits, par) ==
  IF bits = 0
    THEN [ret |-> FALSE, frame |-> <<>>, bits |-> 0]
  ELSE IF bits < 9
    THEN [ret |-> TRUE, frame |-> <<tx[1]>>, bits |-> bits]
  ELSE [ret |-> TRUE,
        frame |-> WrapLoop(tx, [i \in DOMAIN par |-> 0], <<>>, 0, 0, 0, 0, bits),
        bits |-> bits + (bits \div 8)]

\* pn53x_wrap_frame: return value, bytes stored in pbtFrame, *pszFrameBits
pn53x_wrap_frame(tx, bits, par) ==
  IF bits = 0
    THEN [ret |-> FALSE, frame |-> <<>>, bits |-> 0]
  ELSE IF bits < 9
    THEN [ret |-> TRUE, frame |-> <<tx[1]>>, bits |-> bits]
  ELSE [ret |-> TRUE,
        frame |-> WrapLoop(tx, par, <<>>, 0, 0, 0, 0, bits),
        bits |-> bits + (bits \div 8)]

\* a read of the frame array at C index i: past the bytes of the frame the
\* array holds whatever was there before (stale)
Fetch(frame, i, stale) == IF i < Len(frame) THEN frame[i + 1] ELSE stale

\* the loops of pn53x_unwrap_frame; fpos is the offset of pbtFramePos, acc
\* collects the bytes stored in pbtRx and pbtRxPar and the highest frame
\* index read
RECURSIVE UnwrapLoop(_, _, _, _, _, _, _)
UnwrapLoop(frame, stale, fpos, uiBitPos, uiDataPos, szBitsLeft, acc) ==
  IF uiBitPos = 8
    THEN UnwrapLoop(frame, stale, fpos + 1, 0, uiDataPos, szBitsLeft, acc)
    ELSE LET lo == mirror(Fetch(frame, fpos + uiDataPos, stale))
             hi == mirror(Fetch(frame, fpos + uiDataPos + 1, stale))
             btData == BitOr(Shl(lo, uiBitPos), Shr(hi, 8 - uiBitPos))
             acc1 == [rx |-> Append(acc.rx, mirror(btData)),
                      par |-> Append(acc.par, BitAnd(Shr(hi, 7 - uiBitPos), 1)),
                      read |-> fpos + uiDataPos + 2]
         IN  IF szBitsLeft < 9
               THEN acc1
               ELSE UnwrapLoop(frame, stale, fpos, uiBitPos + 1, uiDataPos + 1,
                               szBitsLeft - 9, acc1)

\* pn53x_unwrap_frame whose short-frame test is "< 8" instead of "< 9"
pn53x_unwrap_frame_short8(frame, bits, stale) ==
  IF bits = 0
    THEN [ret |-> FALSE, rx |-> <<>>, par |-> <<>>, bits |-> 0, read |-> 0]
  ELSE IF bits < 8
    THEN [ret |-> TRUE, rx |-> <<frame[1]>>, par |-> <<>>, bits |-> bits,
          read |-> 1]
  ELSE LET acc == UnwrapLoop(frame, stale, 0, 0, 0, bits,
                             [rx |-> <<>>, par |-> <<>>, read |-> 0])
       IN  [ret |-> TRUE, rx |-> acc.rx, par |-> acc.par,
            bits |-> bits - (bits \div 9), read |-> acc.read]

\* pn53x_unwrap_frame with a parity array: return value, bytes stored in
\* pbtRx and pbtRxPar, *pszRxBits, number of frame bytes read
pn53x_unwrap_frame(frame, bits, stale) ==
  IF bits = 0
    THEN [ret |-> FALSE, rx |-> <<>>, par |-> <<>>, bits |-> 0, read |-> 0]
  ELSE IF bits < 9
    THEN [ret |-> TRUE, rx |-> <<frame[1]>>, par |-> <<>>, bits |-> bits,
          read |-> 1]
  ELSE LET acc == UnwrapLoop(frame, stale, 0, 0, 0, bits,
                             [rx |-> <<>>, par |-> <<>>, read |-> 0])
       IN  [ret |-> TRUE, rx |-> acc.rx, par |-> acc.par,
            bits |-> bits - (bits \div 9), read |-> acc.read]

\* inputs: data bytes, one parity bit per byte, and a bit count that ends in
\* the last byte
BitDataBytes == {38, 147, 255}
LongBits(k) == [i \in 1..k |-> Byte(37 * i + 11)]
LongPar(k, m) == [i \in 1..k |-> (i \div m) % 2]

InitBits ==
  /\ CallIdle
  /\ DecIdle
  /\ PollIdle
  /\ PropIdle
  /\ SerIdle
  /\ SioIdle
  /\ NfcIdle
  /\ WakeIdle
  /\ RegIdle
  /\ bpc = "start"
  /\ \/ \E k \in 1..MaxBitBytes :
          /\ bitTx \in [1..k -> BitDataBytes]
          /\ bitTxPar \in [1..k -> {0, 1}]
          /\ szTxBits \in (8 * (k - 1) + 1)..(8 * k) \cup (IF k = 1 THEN {0} ELSE {})
     \/ \E k \in (MaxBitBytes + 1)..MaxLongBytes, m \in 1..2 :
          /\ bitTx = LongBits(k)
          /\ bitTxPar = LongPar(k, m)
          /\ szTxBits \in {8 * k - 3, 8 * k}
  /\ bitFrame = <<>> /\ szFrameBits = 0 /\ wrapRet = FALSE
  /\ bitRx = <<>> /\ bitRxPar = <<>> /\ szRxBits = 0 /\ unwrapRet = FALSE
  /\ frameRead = 0

\* pn53x_wrap_frame applied to the input
Wrap ==
  /\ bpc = "start"
  /\ LET w == pn53x_wrap_frame(bitTx, szTxBits, bitTxPar)
     IN  /\ wrapRet' = w.ret
         /\ bitFrame' = w.frame
         /\ szFrameBits' = w.bits
  /\ bpc' = "wrapped"
  /\ UNCHANGED <<bitTx, bitTxPar, szTxBits, bitRx, bitRxPar, szRxBits,
                 unwrapRet, frameRead>>
  /\ UNCHANGED exceptBits

\* pn53x_unwrap_frame applied to the frame that pn53x_wrap_frame produced
Unwrap ==
  /\ bpc = "wrapped"
  /\ wrapRet
  /\ \E stale \in StaleBytes :
       LET u == pn53x_unwrap_frame(bitFrame, szFrameBits, stale)
       IN  /\ unwrapRet' = u.ret
           /\ bitRx' = u.rx
           /\ bitRxPar' = u.par
           /\ szRxBits' = u.bits
           /\ frameRead' = u.read
  /\ bpc' = "unwrapped"
  /\ UNCHANGED <<bitTx, bitTxPar, szTxBits, bitFrame, szFrameBits, wrapRet>>
  /\ UNCHANGED exceptBits

\* pn53x_unwrap_frame applied to the input taken as a frame received from
\* the air (szTxBits bits in bitTx)
UnwrapAir ==
  /\ bpc = "start"
  /\ \E stale \in StaleBytes :
       LET u == pn53x_unwrap_frame(bitTx, szTxBits, stale)
       IN  /\ unwrapRet' = u.ret
           /\ bitRx' = u.rx
           /\ bitRxPar' = u.par
           /\ szRxBits' = u.bits
           /\ frameRead' = u.read
  /\ bpc' = "air"
  /\ UNCHANGED <<bitTx, bitTxPar, szTxBits, bitFrame, szFrameBits, wrapRet>>
  /\ UNCHANGED exceptBits

NextBits ==
  \/ Wrap
  \/ Unwrap
  \/ UnwrapAir

SpecBits == InitBits /\ [][NextBits]_vars

Next ==
  \/ Release
  \/ UsbSend
  \/ UsbReadAck
  \/ UsbReadResp
  \/ UartSend
  \/ UartReceive
  \/ ArygonSend
  \/ ArygonReceive

Spec == Init /\ [][Next]_vars

(***************************************************************************)
(* pn53x_decode_target_data: one entry of TargetData[] is decoded into     *)
(* *pnti.  raw holds the bytes that exist from pbtRawData on, szDataLen is *)
(* the length handed over with it; a read at an index >= Len(raw) finds no *)
(* byte of the answer and gives the byte stale.                            *)
(***************************************************************************)
RawAt(raw, i, stale) == IF i < Len(raw) THEN raw[i + 1] ELSE stale

Min(a, b) == IF a <= b THEN a ELSE b

\* the largest size_t, (size_t)(0 - 1).  The model's integers are narrower
\* than size_t; what the model needs of the value is that it exceeds the
\* length of every array.
SIZE_MAX == 2147000000

\* memcpy(dst, pbtRawData + from, n)
RawBytes(raw, from, n, stale) == [k \in 1..n |-> RawAt(raw, from + k - 1, stale)]

\* the cascade tags are kept: abtUid and szUidLen stay as they were copied
StripCascadeTag_keep(szUidLen, abtUid) ==
  [len |-> szUidLen, uid |-> abtUid]

\* only the first cascade tag of a 12-byte UID is removed
StripCascadeTag_firstOnly(szUidLen, abtUid) ==
  IF szUidLen \in {8, 12} /\ abtUid[1] = 136
    THEN [len |-> szUidLen - 1, uid |-> SubSeq(abtUid, 2, szUidLen)]
    ELSE [len |-> szUidLen, uid |-> abtUid]

\* "Strip CT (Cascade Tag) to retrieve and store the _real_ UID"
StripCascadeTag(szUidLen, abtUid) ==
  IF szUidLen = 8 /\ abtUid[1] = 136
    THEN [len |-> 7, uid |-> SubSeq(abtUid, 2, 8)]
  ELSE IF szUidLen = 12 /\ abtUid[1] = 136 /\ abtUid[5] = 136
    THEN [len |-> 10, uid |-> SubSeq(abtUid, 2, 4) \o SubSeq(abtUid, 6, 12)]
  ELSE [len |-> szUidLen, uid |-> abtUid]

\* case NTT_MIFARE / NTT_GENERIC_PASSIVE_106 with the ATQA bytes stored in
\* the order received on every chip
DecodeIso14443a_noSwap(raw, szDataLen, nc, stale) ==
  LET szUidLen == RawAt(raw, 4, stale)
      abtUid   == RawBytes(raw, 5, szUidLen, stale)
      hasAts   == szDataLen > szUidLen + 5
      szAtsLen == IF ~hasAts THEN 0
                  ELSE IF RawAt(raw, 5 + szUidLen, stale) = 0 THEN SIZE_MAX
                  ELSE RawAt(raw, 5 + szUidLen, stale) - 1
      ct       == StripCascadeTag(szUidLen, abtUid)
  IN  [ret  |-> TRUE,
       read |-> IF hasAts THEN 6 + szUidLen + szAtsLen ELSE 5 + szUidLen,
       info |-> [kind     |-> "nai",
                 abtAtqa  |-> <<RawAt(raw, 1, stale), RawAt(raw, 2, stale)>>,
                 btSak    |-> RawAt(raw, 3, stale),
                 szUidLen |-> ct.len,
                 abtUid   |-> ct.uid,
                 szAtsLen |-> szAtsLen,
                 abtAts   |-> IF hasAts
                                THEN SubSeq(raw, 7 + szUidLen,
                                            Min(6 + szUidLen + szAtsLen, Len(raw)))
                                ELSE <<>>]]

\* case NTT_MIFARE / NTT_GENERIC_PASSIVE_106.  szAtsLen is a size_t: an ATS
\* length byte of 0 wraps to SIZE_MAX.  Of the ATS only the bytes that exist
\* are kept in abtAts; read tells how far the memcpy reaches.
DecodeIso14443a(raw, szDataLen, nc, stale) ==
  LET szUidLen == RawAt(raw, 4, stale)
      abtUid   == RawBytes(raw, 5, szUidLen, stale)
      hasAts   == szDataLen > szUidLen + 5
      szAtsLen == IF ~hasAts THEN 0
                  ELSE IF RawAt(raw, 5 + szUidLen, stale) = 0 THEN SIZE_MAX
                  ELSE RawAt(raw, 5 + szUidLen, stale) - 1
      ct       == StripCascadeTag(szUidLen, abtUid)
  IN  [ret  |-> TRUE,
       read |-> IF hasAts THEN 6 + szUidLen + szAtsLen ELSE 5 + szUidLen,
       info |-> [kind     |-> "nai",
                 abtAtqa  |-> IF nc = "NC_PN531"
                                THEN <<RawAt(raw, 2, stale), RawAt(raw, 1, stale)>>
                                ELSE <<RawAt(raw, 1, stale), RawAt(raw, 2, stale)>>,
                 btSak    |-> RawAt(raw, 3, stale),
                 szUidLen |-> ct.len,
                 abtUid   |-> ct.uid,
                 szAtsLen |-> szAtsLen,
                 abtAts   |-> IF hasAts
                                THEN SubSeq(raw, 7 + szUidLen,
                                            Min(6 + szUidLen + szAtsLen, Len(raw)))
                                ELSE <<>>]]

\* case NTT_ISO14443B_106
DecodeIso14443b(raw, stale) ==
  LET ui8AttribResLen == RawAt(raw, 13, stale)
      hasInf   == ui8AttribResLen > 8
      szInfLen == IF hasInf THEN RawAt(raw, 22, stale) ELSE 0
  IN  [ret  |-> TRUE,
       read |-> IF hasInf THEN 23 + szInfLen ELSE 22,
       info |-> [kind     |-> "nbi",
                 abtAtqb  |-> RawBytes(raw, 1, 12, stale),
                 abtId    |-> RawBytes(raw, 14, 4, stale),
                 btParam  |-> RawBytes(raw, 18, 4, stale),
                 szInfLen |-> szInfLen,
                 abtInf   |-> IF hasInf THEN RawBytes(raw, 23, szInfLen, stale)
                                        ELSE <<>>]]

\* case NTT_FELICA_212 / NTT_FELICA_424
DecodeFelica(raw, stale) ==
  LET szLen == RawAt(raw, 1, stale)
  IN  [ret  |-> TRUE,
       read |-> IF szLen > 18 THEN 21 ELSE 19,
       info |-> [kind       |-> "nfi",
                 szLen      |-> szLen,
                 btResCode  |-> RawAt(raw, 2, stale),
                 abtId      |-> RawBytes(raw, 3, 8, stale),
                 abtPad     |-> RawBytes(raw, 11, 8, stale),
                 abtSysCode |-> IF szLen > 18 THEN RawBytes(raw, 19, 2, stale)
                                              ELSE <<>>]]

\* case NTT_JEWEL_106
DecodeJewel(raw, stale) ==
  [ret  |-> TRUE,
   read |-> 7,
   info |-> [kind      |-> "nji",
             btSensRes |-> RawBytes(raw, 1, 2, stale),
             btId      |-> RawBytes(raw, 3, 4, stale)]]

\* the function always returns true for the types it knows
pn53x_decode_target_data(raw, szDataLen, nc, ntt, stale) ==
  IF ntt \in {"NTT_MIFARE", "NTT_GENERIC_PASSIVE_106"}
    THEN DecodeIso14443a(raw, szDataLen, nc, stale)
  ELSE IF ntt = "NTT_ISO14443B_106"
    THEN DecodeIso14443b(raw, stale)
  ELSE IF ntt \in {"NTT_FELICA_212", "NTT_FELICA_424"}
    THEN DecodeFelica(raw, stale)
  ELSE IF ntt = "NTT_JEWEL_106"
    THEN DecodeJewel(raw, stale)
  ELSE [ret |-> FALSE, read |-> 0, info |-> [kind |-> "none"]]

\* TargetData[] entries as the chip sends them, first byte Tg
DecAtqas == {<<68, 3>>, <<0, 4>>}
DecUids ==
  { <<170, 187, 204, 221>>,
    <<136, 4, 90, 107>>,
    <<136, 4, 90, 107, 49, 194, 133>>,
    <<136, 4, 90, 107, 49, 194, 133, 7>>,
    <<4, 90, 107, 49, 194, 133, 7, 136>>,
    <<136, 1, 2, 3, 4, 5, 6, 7, 8, 9>>,
    <<136, 1, 2, 3, 136, 5, 6, 7, 8, 9, 10, 11>>,
    <<136, 1, 2, 3, 4, 5, 6, 7, 8, 9, 10, 11>> }
DecAtss == {<<>>, <<3, 120, 128>>}
TargetData14443a ==
  {<<1>> \o a \o <<8, Len(u)>> \o u \o t : a \in DecAtqas, u \in DecUids, t \in DecAtss}
TargetData14443b ==
  {<<1, 80, 1, 2, 3, 4, 5, 6, 7, 8, 9, 10, 11>> \o <<n>> \o <<21, 22, 23, 24, 0, 0, 0, 1>> \o inf :
     n \in {8}, inf \in {<<>>}}
  \cup {<<1, 80, 1, 2, 3, 4, 5, 6, 7, 8, 9, 10, 11, 10, 21, 22, 23, 24, 0, 0, 0, 1, 1, 77>>}
TargetDataFelica ==
  { <<1, 18, 1, 1, 2, 3, 4, 5, 6, 7, 8, 9, 9, 9, 9, 9, 9, 9, 9>>,
    <<1, 20, 1, 1, 2, 3, 4, 5, 6, 7, 8, 9, 9, 9, 9, 9, 9, 9, 9, 18, 252>> }
TargetDataJewel == {<<1, 0, 12, 181, 16, 32, 48>>}

TargetDataFor(ntt) ==
  IF ntt \in {"NTT_MIFARE", "NTT_GENERIC_PASSIVE_106"} THEN TargetData14443a
  ELSE IF ntt = "NTT_ISO14443B_106" THEN TargetData14443b
  ELSE IF ntt \in {"NTT_FELICA_212", "NTT_FELICA_424"} THEN TargetDataFelica
  ELSE IF ntt = "NTT_JEWEL_106" THEN TargetDataJewel
  ELSE {<<1, 0, 0>>}

\* the caller may hand over any leading part of an entry, down to nothing
Prefixes(d) == {SubSeq(d, 1, k) : k \in 0..Len(d)}

ChipVariants == {"NC_PN531", "NC_PN532", "NC_PN533"}
TargetTypes ==
  {"NTT_MIFARE", "NTT_GENERIC_PASSIVE_106", "NTT_ISO14443B_106",
   "NTT_FELICA_212", "NTT_FELICA_424", "NTT_JEWEL_106", "NTT_DEP_PASSIVE_106"}

InitDecode ==
  /\ CallIdle
  /\ BitIdle
  /\ PollIdle
  /\ PropIdle
  /\ SerIdle
  /\ SioIdle
  /\ NfcIdle
  /\ WakeIdle
  /\ RegIdle
  /\ dpc = "start"
  /\ decNc \in ChipVariants
  /\ decNtt \in TargetTypes
  /\ \E d \in TargetDataFor(decNtt) : decRaw \in Prefixes(d)
  /\ decRet = FALSE /\ decRead = 0 /\ decInfo = [kind |-> "none"]

\* pn53x_decode_target_data applied to the input
Decode ==
  /\ dpc = "start"
  /\ \E stale \in StaleBytes :
       LET r == pn53x_decode_target_data(decRaw, Len(decRaw), decNc, decNtt, stale)
       IN  /\ decRet' = r.ret
           /\ decRead' = r.read
           /\ decInfo' = r.info
  /\ dpc' = "done"
  /\ UNCHANGED <<decRaw, decNc, decNtt>>
  /\ UNCHANGED exceptDec

NextDecode ==
  \/ Decode

SpecDecode == InitDecode /\ [][NextDecode]_vars

(***************************************************************************)
(* pn53x_InAutoPoll on one handle.  The transport's transceive is taken by *)
(* its outcome: the value it returns, the iLastError it leaves and the     *)
(* bytes it delivers (pn53x_usb_transceive sets DEIO, DENACK,              *)
(* DEACKMISMATCH or DEINVAL when it fails and may set DEISERRFRAME when it *)
(* succeeds).                                                              *)
(***************************************************************************)
\* nfc_target_type_t as the chip encodes it in the answer.  The enumeration
\* is declared outside these sources; the model needs the values to be
\* different from each other, nothing else.
NttByte ==
  [NTT_GENERIC_PASSIVE_106 |-> 0, NTT_ISO14443B_106 |-> 3, NTT_JEWEL_106 |-> 4,
   NTT_MIFARE |-> 16, NTT_FELICA_212 |-> 17, NTT_FELICA_424 |-> 18,
   NTT_DEP_PASSIVE_106 |-> 64]

\* pntTargets[i].ntt = *(pbt++)
NttOf(b) ==
  IF \E n \in DOMAIN NttByte : NttByte[n] = b
    THEN CHOOSE n \in DOMAIN NttByte : NttByte[n] = b
    ELSE "other"

\* bytes of abtRx[] from index i on that the transport delivered
RxFrom(abtRx, i) == IF i < Len(abtRx) THEN SubSeq(abtRx, i + 1, Len(abtRx)) ELSE <<>>

\* one "Target type, AutoPollTargetData length, data" entry at abtRx + pos
AutoPollTarget(abtRx, pos, nc, stale) ==
  LET ntt == NttOf(RawAt(abtRx, pos, stale))
      ln  == RawAt(abtRx, pos + 1, stale)
      r   == pn53x_decode_target_data(RxFrom(abtRx, pos + 2), ln, nc, ntt, stale)
  IN  [ntt |-> ntt, ln |-> ln, nti |-> r.info, read |-> pos + 2 + r.read]

\* pn53x_InAutoPoll: cur is pnd->iLastError on entry, drv the outcome of
\* pnd->pdc->transceive when it is called (drv.err = 0: the transport left
\* pnd->iLastError alone)
pn53x_InAutoPoll(nc, cur, drv, stale) ==
  IF nc = "NC_PN531"
    THEN [called |-> FALSE, ret |-> FALSE, err |-> 0, found |-> -1, targets |-> <<>>]
  ELSE IF Len(drv.rx) = 0 \/ ~drv.res
    THEN [called |-> TRUE, ret |-> FALSE, err |-> drv.err, found |-> -1,
          targets |-> <<>>]
  ELSE LET t1 == AutoPollTarget(drv.rx, 1, nc, stale)
           t2 == AutoPollTarget(drv.rx, 3 + t1.ln, nc, stale)
       IN  [called |-> TRUE, ret |-> TRUE, err |-> drv.err,
            found |-> drv.rx[1],
            targets |-> IF drv.rx[1] = 0 THEN <<>>
                        ELSE IF drv.rx[1] > 1 THEN <<t1, t2>>
                        ELSE <<t1>>]

\* answers to InAutoPoll: NbTg, then per target its type, the length of its
\* data and the data
PollResponses ==
  { <<>>, <<0>>, <<1>>,
    <<1, 16, 9, 1, 68, 3, 8, 4, 170, 187, 204, 221>>,
    <<1, 16, 13, 1, 0, 4, 8, 8, 136, 4, 90, 107, 49, 194, 133, 7>>,
    <<1, 16, 0>>,
    <<1, 4, 7, 1, 0, 12, 181, 16, 32, 48>>,
    <<1, 17, 19, 1, 18, 1, 1, 2, 3, 4, 5, 6, 7, 8, 9, 9, 9, 9, 9, 9, 9, 9>>,
    <<1, 99, 1, 1>>,
    <<2, 16, 9, 1, 68, 3, 8, 4, 170, 187, 204, 221, 4, 7, 2, 0, 12, 181, 16, 32, 48>> }

\* { 0xd4, 0x60, pollnr, period, types... }
AutoPollCommand(pnttTargetTypes, btPollNr, btPeriod) ==
  <<212, 96, btPollNr, btPeriod>> \o pnttTargetTypes

PollNrs == {1, 255}
PollPeriods == {1, 15}
PollTypeLists ==
  {<<NttByte.NTT_MIFARE>>, <<NttByte.NTT_GENERIC_PASSIVE_106, NttByte.NTT_JEWEL_106>>}

PollDriverOutcomes ==
  {[res |-> FALSE, err |-> e, rx |-> <<>>] : e \in {DEIO, DENACK, DEACKMISMATCH, DEINVAL}}
    \cup {[res |-> TRUE, err |-> e, rx |-> r] : e \in {0, DEISERRFRAME}, r \in PollResponses}

\* state right after pn53x_usb_connect: iLastError is not set there
InitPoll ==
  /\ CallIdle
  /\ BitIdle
  /\ DecIdle
  /\ PropIdle
  /\ SerIdle
  /\ SioIdle
  /\ NfcIdle
  /\ WakeIdle
  /\ RegIdle
  /\ ppc = "idle"
  /\ pollNc \in ChipVariants
  /\ pollErr \in UninitErrors
  /\ pollTx = <<>>
  /\ pollDrv = [called |-> FALSE] /\ pollRet = FALSE /\ pollFound = -1
  /\ pollTargets = <<>>

InAutoPoll ==
  /\ ppc = "idle"
  /\ \E types \in PollTypeLists, nr \in PollNrs, period \in PollPeriods,
        drv \in PollDriverOutcomes, stale \in StaleBytes :
       LET r == pn53x_InAutoPoll(pollNc, pollErr, drv, stale)
       IN  /\ pollTx' = IF r.called THEN AutoPollCommand(types, nr, period)
                                    ELSE <<>>
           /\ pollRet' = r.ret
           /\ pollErr' = r.err
           /\ pollFound' = r.found
           /\ pollTargets' = r.targets
           /\ pollDrv' = IF r.called THEN [called |-> TRUE, res |-> drv.res,
                                           err |-> drv.err, rx |-> drv.rx]
                                     ELSE [called |-> FALSE]
  /\ ppc' = "done"
  /\ UNCHANGED pollNc
  /\ UNCHANGED exceptPoll

\* the caller has taken the result; the handle keeps its iLastError
PollRelease ==
  /\ ppc = "done"
  /\ ppc' = "idle"
  /\ pollDrv' = [called |-> FALSE] /\ pollRet' = FALSE /\ pollFound' = -1
  /\ pollTargets' = <<>> /\ pollTx' = <<>>
  /\ UNCHANGED <<pollNc, pollErr>>
  /\ UNCHANGED exceptPoll

NextPoll ==
  \/ InAutoPoll
  \/ PollRelease

SpecPoll == InitPoll /\ [][NextPoll]_vars

(***************************************************************************)
(* Boolean properties of a handle.  nfc_device_set_property_bool hands the *)
(* call to the driver (HAL); the driver's device_set_property_bool is not  *)
(* part of these sources and is modelled from the specification: the flag  *)
(* on the handle changes together with the chip register write, and not at *)
(* all when that write fails.                                              *)
(***************************************************************************)
Properties ==
  {"NP_HANDLE_CRC", "NP_HANDLE_PARITY", "NP_EASY_FRAMING", "NP_ACTIVATE_FIELD"}

\* the driver is handed the negated value
nfc_device_set_property_bool_negated(property, bEnable) ==
  [property |-> property, bEnable |-> ~bEnable]

\* HAL (device_set_property_bool, pnd, property, bEnable): what the driver
\* is called with
nfc_device_set_property_bool(property, bEnable) ==
  [property |-> property, bEnable |-> bEnable]

\* the driver's setter; writeOk: the chip took the register write.  Gives
\* the result (0, or a negative error code) and the state it leaves.
device_set_property_bool(args, writeOk, crc, par, chip) ==
  IF ~writeOk
    THEN [res |-> -1, bCrc |-> crc, bPar |-> par, chip |-> chip]
    ELSE [res  |-> 0,
          bCrc |-> IF args.property = "NP_HANDLE_CRC" THEN args.bEnable ELSE crc,
          bPar |-> IF args.property = "NP_HANDLE_PARITY" THEN args.bEnable ELSE par,
          chip |-> [chip EXCEPT ![args.property] = args.bEnable]]

\* state right after connect: bCrc and bPar are set to true; what the chip's
\* registers hold is not known
InitProp ==
  /\ CallIdle
  /\ BitIdle
  /\ DecIdle
  /\ PollIdle
  /\ SerIdle
  /\ SioIdle
  /\ NfcIdle
  /\ WakeIdle
  /\ RegIdle
  /\ hpc = "idle"
  /\ bCrc = TRUE /\ bPar = TRUE
  /\ chipCfg \in [Properties -> BOOLEAN]
  /\ propCall = [made |-> FALSE]

SetPropertyBool ==
  /\ hpc = "idle"
  /\ \E property \in Properties, bEnable \in BOOLEAN, writeOk \in BOOLEAN :
       LET args == nfc_device_set_property_bool(property, bEnable)
           r    == device_set_property_bool(args, writeOk, bCrc, bPar, chipCfg)
       IN  /\ bCrc' = r.bCrc
           /\ bPar' = r.bPar
           /\ chipCfg' = r.chip
           /\ propCall' = [made |-> TRUE, property |-> property,
                           bEnable |-> bEnable, res |-> r.res,
                           crcBefore |-> bCrc, parBefore |-> bPar]
  /\ hpc' = "done"
  /\ UNCHANGED exceptProp

\* the caller has taken the result
PropRelease ==
  /\ hpc = "done"
  /\ hpc' = "idle"
  /\ propCall' = [made |-> FALSE]
  /\ UNCHANGED <<bCrc, bPar, chipCfg>>
  /\ UNCHANGED exceptProp

NextProp ==
  \/ SetPropertyBool
  \/ PropRelease

SpecProp == InitProp /\ [][NextProp]_vars

(***************************************************************************)
(* rs232.c, the build for unix: one serial port used by several processes. *)
(* The terminal settings are kept as [claimed, line, speed]: claimed is    *)
(* the CCLAIMED bit of c_iflag, line the rest of the line discipline       *)
(* ("cooked": as found, "raw": as rs232_open sets it), speed the baud      *)
(* rate.  Each action is one system call on the port with the code around  *)
(* it.  A tcsetattr that writes back settings read from this port succeeds;*)
(* a tcgetattr fails only on a descriptor that is no usable terminal, and  *)
(* then the tcsetattr of rs232_close fails on it as well.                  *)
(***************************************************************************)
Procs == {"A", "B"}

\* the speeds rs232_set_speed has a case for (B460800 defined)
ValidSpeeds == {9600, 19200, 38400, 57600, 115200, 230400, 460800}

\* uiPortSpeed values handed to rs232_set_speed
SpeedArgs == {9600, 115200, 4800}

\* the port's speed before any process opens it
LineSpeeds == {9600, 115200}

\* a term_info that was never filled in
Unset == [claimed |-> FALSE, line |-> "unset", speed |-> 0]

\* no serial_port_unix allocated
NoPort == [st |-> "none", fd |-> FALSE, tiOld |-> Unset, tiNew |-> Unset]

NoCall ==
  [op |-> "none", arg |-> 0, ret |-> "none", val |-> 0, done |-> TRUE,
   before |-> Unset, held |-> FALSE, osFail |-> FALSE, log |-> <<>>,
   tiNewBefore |-> Unset, preOpen |-> Unset, prev |-> "none"]

\* the test of the claim always finds the port free
IsClaimed_never(ti) == FALSE

\* sp->tiOld.c_iflag & CCLAIMED
IsClaimed(ti) == ti.claimed

\* sp->tiNew as rs232_open fills it in.  c_cflag is overwritten: whether
\* that clears the speed depends on where the platform keeps it.
NewTermios(tiOld, keepSpeed) ==
  [claimed |-> TRUE, line |-> "raw",
   speed |-> IF keepSpeed THEN tiOld.speed ELSE 0]

\* the descriptor is released without restoring the settings
rs232_close_noRestore(fdValid, tiOld, cur) == cur

\* rs232_close: tcsetattr(fd, TCSANOW, &tiOld), then close(fd) and free.
\* Gives the settings the port carries afterwards; with no valid
\* descriptor the tcsetattr fails.
rs232_close(fdValid, tiOld, cur) == IF fdValid THEN tiOld ELSE cur

\* the switch of rs232_set_speed: stPortSpeed
SpeedConstant(uiPortSpeed) ==
  IF uiPortSpeed \in ValidSpeeds THEN uiPortSpeed ELSE 9600

\* the switch of rs232_get_speed
SpeedValue(ti) == IF ti.speed \in ValidSpeeds THEN ti.speed ELSE 0

\* process p may make a step
Turn(p) ==
  \/ sched = "concurrent"
  \/ \A q \in Procs \ {p} : sp[q].st \in {"none", "open"}

\* the operation that ended last on the port
LastOp == IF serLast = "none" THEN "none" ELSE serCall[serLast].op

InitSerial ==
  /\ CallIdle
  /\ BitIdle
  /\ DecIdle
  /\ PollIdle
  /\ PropIdle
  /\ SioIdle
  /\ NfcIdle
  /\ WakeIdle
  /\ RegIdle
  /\ \E s \in LineSpeeds : port = [claimed |-> FALSE, line |-> "cooked", speed |-> s]
  /\ sp = [p \in Procs |-> NoPort]
  /\ serCall = [p \in Procs |-> NoCall]
  /\ serLast = "none"
  /\ sched = "sequential"

\* rs232_open up to open(): malloc and open
Rs232OpenFd ==
  \E p \in Procs, ok \in BOOLEAN :
    /\ sp[p].st = "none"
    /\ Turn(p)
    /\ serCall' = [serCall EXCEPT ![p] =
         [NoCall EXCEPT !.op = "open",
                        !.ret = IF ok THEN "pending" ELSE "INVALID_SERIAL_PORT",
                        !.done = ~ok,
                        !.osFail = ~ok,
                        !.before = port,
                        !.preOpen = port,
                        !.held = \E q \in Procs \ {p} : sp[q].st = "open",
                        !.prev = LastOp]]
    /\ sp' = [sp EXCEPT ![p] = IF ok THEN [NoPort EXCEPT !.st = "fd", !.fd = TRUE]
                                     ELSE NoPort]
    /\ serLast' = p
    /\ UNCHANGED <<port, sched>>
    /\ UNCHANGED exceptSer

\* rs232_open: tcgetattr(sp->fd, &sp->tiOld)
Rs232GetAttr ==
  \E p \in Procs, ok \in BOOLEAN :
    /\ sp[p].st = "fd"
    /\ Turn(p)
    /\ IF ok
         THEN /\ sp' = [sp EXCEPT ![p].st = "attr", ![p].tiOld = port]
              /\ UNCHANGED serCall
         ELSE /\ sp' = [sp EXCEPT ![p] = NoPort]
              /\ serCall' = [serCall EXCEPT ![p].ret = "INVALID_SERIAL_PORT",
                                            ![p].done = TRUE,
                                            ![p].osFail = TRUE]
    /\ serLast' = p
    /\ UNCHANGED <<port, sched>>
    /\ UNCHANGED exceptSer

\* rs232_open from the test of the claim to its return
Rs232SetAttr ==
  \E p \in Procs, ok \in BOOLEAN, keepSpeed \in BOOLEAN :
    /\ sp[p].st = "attr"
    /\ Turn(p)
    /\ IF IsClaimed(sp[p].tiOld)
         THEN /\ port' = rs232_close(sp[p].fd, sp[p].tiOld, port)
              /\ sp' = [sp EXCEPT ![p] = NoPort]
              /\ serCall' = [serCall EXCEPT ![p].ret = "CLAIMED_SERIAL_PORT",
                                            ![p].done = TRUE]
         ELSE LET tiNew == NewTermios(sp[p].tiOld, keepSpeed)
              IN  IF ok
                    THEN /\ port' = tiNew
                         /\ sp' = [sp EXCEPT ![p].st = "open", ![p].tiNew = tiNew]
                         /\ serCall' = [serCall EXCEPT ![p].ret = "ok",
                                                       ![p].done = TRUE]
                    ELSE /\ port' = rs232_close(sp[p].fd, sp[p].tiOld, port)
                         /\ sp' = [sp EXCEPT ![p] = NoPort]
                         /\ serCall' = [serCall EXCEPT ![p].ret = "INVALID_SERIAL_PORT",
                                                       ![p].done = TRUE,
                                                       ![p].osFail = TRUE]
    /\ serLast' = p
    /\ UNCHANGED sched
    /\ UNCHANGED exceptSer

\* rs232_set_speed
Rs232SetSpeed ==
  \E p \in Procs, uiPortSpeed \in SpeedArgs, ok \in BOOLEAN :
    /\ sp[p].st = "open"
    /\ Turn(p)
    /\ LET tiNew == [sp[p].tiNew EXCEPT !.speed = SpeedConstant(uiPortSpeed)]
       IN  /\ sp' = [sp EXCEPT ![p].tiNew = tiNew]
           /\ port' = IF ok THEN tiNew ELSE port
           /\ serCall' = [serCall EXCEPT ![p] =
                [NoCall EXCEPT !.op = "set_speed",
                               !.arg = uiPortSpeed,
                               !.ret = "void",
                               !.osFail = ~ok,
                               !.log = (IF uiPortSpeed \in ValidSpeeds THEN <<>>
                                          ELSE <<"Unable to set serial port speed">>)
                                       \o (IF ok THEN <<>>
                                             ELSE <<"Unable to apply new speed settings">>),
                               !.before = port,
                               !.tiNewBefore = sp[p].tiNew,
                               !.preOpen = serCall[p].preOpen,
                               !.prev = LastOp]]
    /\ serLast' = p
    /\ UNCHANGED sched
    /\ UNCHANGED exceptSer

\* rs232_get_speed
Rs232GetSpeed ==
  \E p \in Procs :
    /\ sp[p].st = "open"
    /\ Turn(p)
    /\ serCall' = [serCall EXCEPT ![p] =
         [NoCall EXCEPT !.op = "get_speed",
                        !.ret = "value",
                        !.val = SpeedValue(sp[p].tiNew),
                        !.before = port,
                        !.tiNewBefore = sp[p].tiNew,
                        !.preOpen = serCall[p].preOpen,
                        !.prev = LastOp]]
    /\ serLast' = p
    /\ UNCHANGED <<port, sp, sched>>
    /\ UNCHANGED exceptSer

\* rs232_close on a port that rs232_open returned
Rs232Close ==
  \E p \in Procs :
    /\ sp[p].st = "open"
    /\ Turn(p)
    /\ port' = rs232_close(sp[p].fd, sp[p].tiOld, port)
    /\ sp' = [sp EXCEPT ![p] = NoPort]
    /\ serCall' = [serCall EXCEPT ![p] =
         [NoCall EXCEPT !.op = "close",
                        !.ret = "void",
                        !.before = port,
                        !.tiNewBefore = sp[p].tiNew,
                        !.preOpen = serCall[p].preOpen,
                        !.prev = LastOp]]
    /\ serLast' = p
    /\ UNCHANGED sched
    /\ UNCHANGED exceptSer

NextSerial ==
  \/ Rs232OpenFd
  \/ Rs232GetAttr
  \/ Rs232SetAttr
  \/ Rs232SetSpeed
  \/ Rs232GetSpeed
  \/ Rs232Close

SpecSerial == InitSerial /\ [][NextSerial]_vars

\* the same port when the processes are scheduled by the operating system:
\* the system calls of one rs232_open interleave with those of the other
\* process
InitSerialConcurrent ==
  /\ CallIdle
  /\ BitIdle
  /\ DecIdle
  /\ PollIdle
  /\ PropIdle
  /\ SioIdle
  /\ NfcIdle
  /\ WakeIdle
  /\ RegIdle
  /\ \E s \in LineSpeeds : port = [claimed |-> FALSE, line |-> "cooked", speed |-> s]
  /\ sp = [p \in Procs |-> NoPort]
  /\ serCall = [p \in Procs |-> NoCall]
  /\ serLast = "none"
  /\ sched = "concurrent"

\* the processes open and close the port; the speed is left alone
NextSerialConcurrent ==
  \/ Rs232OpenFd
  \/ Rs232GetAttr
  \/ Rs232SetAttr
  \/ Rs232Close

SpecSerialConcurrent == InitSerialConcurrent /\ [][NextSerialConcurrent]_vars

(***************************************************************************)
(* rs232_receive and rs232_send on an open port.                           *)
(***************************************************************************)
\* bytes the driver's queue may hold, and bytes handed to rs232_send
MaxSerialBytes == 4

\* rs232_send, unix build: iResult is what write() returned
rs232_send_unix(szTxLen, iResult) == iResult >= 0

\* rs232_send, Windows build: the value of WriteFile is returned, the
\* statement that looks at dwTxLen comes after it and is never executed
rs232_send_windows(szTxLen, bWritten, dwTxLen) == bWritten

\* rs232_receive, unix build.  iResult is what select() returned, byteCount
\* what FIONREAD left in the variable, nread what read() returned when it is
\* called, prevLen the value of *pszRxLen on entry.  The result of read()
\* is stored into the unsigned *pszRxLen before it is compared with 0.
rs232_receive_unix(iResult, byteCount, nread, prevLen) ==
  IF iResult < 0
    THEN [ret |-> FALSE, len |-> 0, asked |-> -1]
  ELSE IF iResult = 0
    THEN [ret |-> FALSE, len |-> 0, asked |-> -1]
  ELSE IF byteCount = 0
    THEN [ret |-> FALSE, len |-> 0, asked |-> -1]
  ELSE LET pszRxLen == IF nread < 0 THEN SIZE_MAX ELSE nread
       IN  [ret |-> pszRxLen > 0, len |-> pszRxLen, asked |-> byteCount]

\* values an int that no call has stored may hold
StaleCounts == {0, 1, MaxSerialBytes + 1}

InitSio ==
  /\ CallIdle
  /\ BitIdle
  /\ DecIdle
  /\ PollIdle
  /\ PropIdle
  /\ SerIdle
  /\ NfcIdle
  /\ WakeIdle
  /\ RegIdle
  /\ rwpc = "idle"
  /\ rwCall = [op |-> "none"]

\* one call of rs232_receive.  pending: the bytes in the driver's queue;
\* select() reports the port readable exactly when there are some, or
\* fails; FIONREAD gives their number, or fails and leaves byteCount as it
\* was; read() fails or takes as many of them as it was asked for.
Rs232Receive ==
  /\ rwpc = "idle"
  /\ UNCHANGED exceptSio
  /\ \E pending \in (0..MaxSerialBytes) \cup {BUFFER_LENGTH + 1},
        selFail \in BOOLEAN, ioctlOk \in BOOLEAN,
        stale \in StaleCounts, readFail \in BOOLEAN, prevLen \in {0, BUFFER_LENGTH} :
       LET iResult == IF selFail THEN -1 ELSE IF pending > 0 THEN 1 ELSE 0
           byteCount == IF ioctlOk THEN pending ELSE stale
           nread == IF readFail THEN -1 ELSE Min(byteCount, pending)
           r == rs232_receive_unix(iResult, byteCount, nread, prevLen)
       IN  /\ rwCall' = [op |-> "receive", build |-> "unix",
                         iResult |-> iResult, ioctlOk |-> ioctlOk,
                         pending |-> pending, byteCount |-> byteCount,
                         nread |-> IF r.asked < 0 THEN 0 ELSE nread,
                         readCalled |-> r.asked >= 0,
                         prevLen |-> prevLen, ret |-> r.ret, len |-> r.len]
           /\ rwpc' = "done"

\* one call of rs232_send.  accepted: the number of bytes the OS took, -1
\* when the write failed.
Rs232Send ==
  /\ rwpc = "idle"
  /\ UNCHANGED exceptSio
  /\ \E build \in {"unix", "windows"}, szTxLen \in 1..MaxSerialBytes :
     \E accepted \in -1..szTxLen :
       /\ rwCall' = [op |-> "send", build |-> build, szTxLen |-> szTxLen,
                     accepted |-> accepted,
                     ret |-> IF build = "unix"
                               THEN rs232_send_unix(szTxLen, accepted)
                               ELSE rs232_send_windows(szTxLen, accepted >= 0,
                                      IF accepted < 0 THEN 0 ELSE accepted)]
       /\ rwpc' = "done"

\* the caller has taken the result
SioRelease ==
  /\ rwpc = "done"
  /\ rwpc' = "idle"
  /\ rwCall' = [op |-> "none"]
  /\ UNCHANGED exceptSio

NextSio ==
  \/ Rs232Receive
  \/ Rs232Send
  \/ SioRelease

SpecSio == InitSio /\ [][NextSio]_vars

(***************************************************************************)
(* nfc.c: the library interface.  Strings are sequences of characters.     *)
(* The HAL macro and the drivers behind it are not part of these sources;  *)
(* HAL is modelled from the specification as the call of the driver's      *)
(* function, whose result is returned.                                     *)
(***************************************************************************)
\* devices attached per driver, and capacity of the caller's array
MaxDevices == 2

\* ndr->name of the entries of nfc_drivers[], in order
nfc_drivers ==
  << <<"p", "n", "5", "3", "x", "_", "u", "s", "b">>,
     <<"a", "c", "r", "1", "2", "2">>,
     <<"p", "n", "5", "3", "2", "_", "u", "a", "r", "t">>,
     <<"a", "r", "y", "g", "o", "n">> >>

\* a - b on size_t
SizeSub(a, b) == IF a >= b THEN a - b ELSE SIZE_MAX - (b - a) + 1

\* the loops of pn53x_usb_list_devices over the matching devices: an entry
\* is stored, the count raised, and only then compared with szDevices
RECURSIVE UsbListLoop(_, _, _)
UsbListLoop(szDevices, left, found) ==
  IF left = 0 THEN found
  ELSE IF found + 1 = szDevices THEN found + 1
  ELSE UsbListLoop(szDevices, left - 1, found + 1)

\* pn53x_usb_list_devices with n matching devices on the busses.  found:
\* *pszDeviceFound (left alone when libusb fails), written: the entries
\* pnddDevices[0..written-1] were stored
pn53x_usb_list_devices(szDevices, usbOk, n) ==
  IF ~usbOk
    THEN [ret |-> FALSE, stored |-> FALSE, found |-> 0, written |-> 0]
    ELSE LET f == UsbListLoop(szDevices, n, 0)
         IN  [ret |-> f > 0, stored |-> TRUE, found |-> f, written |-> f]

\* ndr->probe of the other drivers, from the specification: at most cap
\* entries are stored
driver_probe(szDevices, n) ==
  LET f == Min(n, szDevices)
  IN  [ret |-> TRUE, stored |-> TRUE, found |-> f, written |-> f]

\* ndr->probe (connstrings + szDeviceFound, szDevices - szDeviceFound, &szN)
\* for entry i of nfc_drivers[]
Probe(i, cap, usbOk, attached) ==
  IF i = 1 THEN pn53x_usb_list_devices(cap, usbOk, attached[i])
  ELSE driver_probe(cap, attached[i])

\* the loop of nfc_list_devices from entry i on.  written: indexes of
\* connstrings[] that were stored, probes: capacity handed to each probe
RECURSIVE ListDevicesLoop(_, _, _, _, _, _, _)
ListDevicesLoop(i, szDevices, szDeviceFound, written, probes, usbOk, attached) ==
  IF i > Len(nfc_drivers)
    THEN [ret |-> szDeviceFound, written |-> written, probes |-> probes]
    ELSE LET cap == SizeSub(szDevices, szDeviceFound)
             r   == Probe(i, cap, usbOk, attached)
             szN == IF r.stored THEN r.found ELSE 0
             w   == written \cup {szDeviceFound + k : k \in 0..(r.written - 1)}
             pr  == Append(probes, [fn |-> "probe", driver |-> i, cap |-> cap])
         IN  IF r.ret
               THEN IF szDeviceFound + szN = szDevices
                      THEN [ret |-> szDeviceFound + szN, written |-> w,
                            probes |-> pr]
                      ELSE ListDevicesLoop(i + 1, szDevices, szDeviceFound + szN,
                                           w, pr, usbOk, attached)
               ELSE ListDevicesLoop(i + 1, szDevices, szDeviceFound, w, pr,
                                    usbOk, attached)

nfc_list_devices(szDevices, usbOk, attached) ==
  ListDevicesLoop(1, szDevices, 0, {}, <<>>, usbOk, attached)

\* the names are compared as whole strings
NameDiffers_strcmp(name, ncs) == name # ncs

\* strncmp (name, ncs, strlen (name)) is not 0: the comparison runs over
\* the length of the name and meets the end of a shorter ncs
NameDiffers(name, ncs) ==
  \/ Len(ncs) < Len(name)
  \/ \E k \in 1..Len(name) : ncs[k] # name[k]

\* the loop of nfc_open from entry i on: the driver whose open is called,
\* 0 when the end of nfc_drivers[] is reached
RECURSIVE OpenLoop(_, _)
OpenLoop(i, ncs) ==
  IF i > Len(nfc_drivers) THEN 0
  ELSE IF NameDiffers(nfc_drivers[i], ncs) THEN OpenLoop(i + 1, ncs)
  ELSE i

\* a char pointer that is NULL
NoString == <<"(null)">>

\* nfc_get_default_device: env is LIBNFC_DEFAULT_DEVICE (NoString when
\* getenv gives NULL), listed what nfc_list_devices (listed_cs, 1) stored
nfc_get_default_device(env, listed) ==
  IF env = NoString
    THEN IF Len(listed) > 0 THEN [ok |-> TRUE, ncs |-> listed[1]]
         ELSE [ok |-> FALSE, ncs |-> <<>>]
    ELSE [ok |-> TRUE, ncs |-> env]

\* nfc_open; openOk tells
\* whether the driver's open gives a device
nfc_open(connstring, env, listed, openOk) ==
  LET def == nfc_get_default_device(env, listed)
      ncs == IF connstring = NoString THEN def.ncs ELSE connstring
  IN  IF connstring = NoString /\ ~def.ok
        THEN [pnd |-> "NULL", ncs |-> ncs, log |-> <<>>]
        ELSE LET i == OpenLoop(1, ncs)
             IN  IF i = 0
                   THEN [pnd |-> "NULL", ncs |-> ncs, log |-> <<>>]
                   ELSE [pnd |-> IF openOk THEN "device" ELSE "NULL",
                         ncs |-> ncs,
                         log |-> <<[fn |-> "open", driver |-> i]>>]

\* HAL (FUNCTION, pnd, ...), from the specification: the driver's FUNCTION
\* is called and what it returns is returned.  Gives the driver calls made.
HAL(call) == <<call>>

\* nfc_idle
nfc_idle(pnd) == HAL([fn |-> "idle"])

\* the driver is closed before the device is put in idle mode
nfc_close_closeFirst(pnd) ==
  IF pnd # "NULL" THEN <<[fn |-> "close"]>> \o nfc_idle(pnd) ELSE <<>>

\* nfc_close: the driver calls it makes
nfc_close(pnd) ==
  IF pnd # "NULL" THEN nfc_idle(pnd) \o <<[fn |-> "close"]>> ELSE <<>>

\* error codes of nfc.h
NFC_SUCCESS == 0
NFC_EIO == -1
NFC_ENOTSUP == -2

\* nfc_device_set_property_bool (pnd, property, bEnable) when the driver's
\* setter returns res: the driver call made
SetPropertyCall(property, bEnable, res) ==
  HAL([fn |-> "device_set_property_bool",
       args |-> nfc_device_set_property_bool(property, bEnable),
       res |-> res])

\* a run of 'if ((res = nfc_device_set_property_bool (...)) < 0) return
\* res;' from statement k on.  writes: the (property, value) pairs in the
\* order of the code, results[k]: what the driver returns for the k-th
RECURSIVE WriteAll(_, _, _, _)
WriteAll(writes, results, k, log) ==
  IF k > Len(writes) THEN [res |-> 0, log |-> log, all |-> TRUE]
  ELSE LET l == log \o SetPropertyCall(writes[k][1], writes[k][2], results[k])
       IN  IF results[k] < 0
             THEN [res |-> results[k], log |-> l, all |-> FALSE]
             ELSE WriteAll(writes, results, k + 1, l)

\* the writes of nfc_initiator_init with the two framing writes exchanged
InitiatorInitWrites_swapped ==
  << <<"NP_ACTIVATE_FIELD", FALSE>>, <<"NP_ACTIVATE_FIELD", TRUE>>,
     <<"NP_INFINITE_SELECT", TRUE>>, <<"NP_AUTO_ISO14443_4", TRUE>>,
     <<"NP_FORCE_ISO14443_A", TRUE>>, <<"NP_FORCE_SPEED_106", TRUE>>,
     <<"NP_ACCEPT_MULTIPLE_FRAMES", FALSE>>, <<"NP_ACCEPT_INVALID_FRAMES", FALSE>>,
     <<"NP_HANDLE_CRC", TRUE>>, <<"NP_HANDLE_PARITY", TRUE>>,
     <<"NP_EASY_FRAMING", TRUE>>, <<"NP_ACTIVATE_CRYPTO1", FALSE>> >>

\* the writes of nfc_initiator_init, in the order of the code
InitiatorInitWrites ==
  << <<"NP_ACTIVATE_FIELD", FALSE>>, <<"NP_ACTIVATE_FIELD", TRUE>>,
     <<"NP_INFINITE_SELECT", TRUE>>, <<"NP_AUTO_ISO14443_4", TRUE>>,
     <<"NP_FORCE_ISO14443_A", TRUE>>, <<"NP_FORCE_SPEED_106", TRUE>>,
     <<"NP_ACCEPT_INVALID_FRAMES", FALSE>>, <<"NP_ACCEPT_MULTIPLE_FRAMES", FALSE>>,
     <<"NP_HANDLE_CRC", TRUE>>, <<"NP_HANDLE_PARITY", TRUE>>,
     <<"NP_EASY_FRAMING", TRUE>>, <<"NP_ACTIVATE_CRYPTO1", FALSE>> >>

\* the writes of nfc_target_init, in the order of the code
TargetInitWrites ==
  << <<"NP_ACCEPT_INVALID_FRAMES", FALSE>>, <<"NP_ACCEPT_MULTIPLE_FRAMES", FALSE>>,
     <<"NP_HANDLE_CRC", TRUE>>, <<"NP_HANDLE_PARITY", TRUE>>,
     <<"NP_AUTO_ISO14443_4", TRUE>>, <<"NP_EASY_FRAMING", TRUE>>,
     <<"NP_ACTIVATE_CRYPTO1", FALSE>>, <<"NP_ACTIVATE_FIELD", FALSE>> >>

\* nfc_initiator_init; drvRes: what the driver's initiator_init returns
nfc_initiator_init(results, drvRes) ==
  LET w == WriteAll(InitiatorInitWrites, results, 1, <<>>)
  IN  IF ~w.all THEN [res |-> w.res, log |-> w.log]
      ELSE [res |-> drvRes,
            log |-> w.log \o HAL([fn |-> "initiator_init", res |-> drvRes])]

\* nfc_target_init; drvRes: what the driver's target_init returns
nfc_target_init(results, drvRes) ==
  LET w == WriteAll(TargetInitWrites, results, 1, <<>>)
  IN  IF ~w.all THEN [res |-> w.res, log |-> w.log]
      ELSE [res |-> drvRes,
            log |-> w.log \o HAL([fn |-> "target_init", res |-> drvRes])]

\* tags that may be in the field
MaxTags == 2

\* nm.nmt
Modulations ==
  {"NMT_ISO14443A", "NMT_JEWEL", "NMT_ISO14443B", "NMT_ISO14443BI",
   "NMT_ISO14443B2SR", "NMT_ISO14443B2CT", "NMT_FELICA", "NMT_DEP"}

\* no modulation ends the enumeration after one target
SingleTargetModulations_none == {}

\* the modulations after whose first stored target the loop is left
SingleTargetModulations ==
  {"NMT_FELICA", "NMT_JEWEL", "NMT_ISO14443BI", "NMT_ISO14443B2SR",
   "NMT_ISO14443B2CT"}

\* no stored entry is ever found equal
Seen_never(ant, szTargetFound, nt) == FALSE

\* the for loop with memcmp over ant[0..szTargetFound-1]
Seen(ant, szTargetFound, nt) ==
  \E i \in 0..(szTargetFound - 1) : ant[i] = nt

\* one evaluation of the while condition of
\* nfc_initiator_list_passive_targets and, when it holds, of the loop
\* body.  selRes: what nfc_initiator_select_passive_target returns, nt:
\* the bytes of the local nfc_target after it.  again: the loop goes on
ListPassiveStep(nmt, szTargets, szTargetFound, ant, selRes, nt) ==
  LET sel  == HAL([fn |-> "initiator_select_passive_target", res |-> selRes])
      desel == HAL([fn |-> "initiator_deselect_target"])
  IN  IF ~(selRes > 0)
        THEN [again |-> FALSE, found |-> szTargetFound, ant |-> ant, log |-> sel]
      ELSE IF szTargets = szTargetFound
        THEN [again |-> FALSE, found |-> szTargetFound, ant |-> ant,
              log |-> sel \o desel]
      ELSE IF Seen(ant, szTargetFound, nt)
        THEN [again |-> FALSE, found |-> szTargetFound, ant |-> ant,
              log |-> sel \o desel]
      ELSE [again |-> nmt \notin SingleTargetModulations,
            found |-> szTargetFound + 1,
            ant   |-> [i \in (DOMAIN ant) \cup {szTargetFound} |->
                         IF i = szTargetFound THEN nt ELSE ant[i]],
            log   |-> sel \o desel]

\* connection strings handed to nfc_open or found in the environment
ConnStrings ==
  {nfc_drivers[1] \o <<":", "1">>,
   nfc_drivers[1] \o <<"x", ":", "1">>,
   nfc_drivers[1],
   nfc_drivers[2] \o <<":", "0">>,
   nfc_drivers[3] \o <<":", "t">>,
   nfc_drivers[4] \o <<":", "t">>,
   <<"p", "n", "5", "3", "2", ":", "t">>,
   <<"u", "s", "b", ":", "1">>,
   <<>>}

\* what nfc_list_devices (listed_cs, 1) stores for nfc_get_default_device
ListedFirst == {<<>>} \cup {<<nfc_drivers[i] \o <<":", "1">> >> : i \in 1..Len(nfc_drivers)}

InitNfc ==
  /\ CallIdle
  /\ BitIdle
  /\ DecIdle
  /\ PollIdle
  /\ PropIdle
  /\ SerIdle
  /\ SioIdle
  /\ WakeIdle
  /\ RegIdle
  /\ npc = "idle"
  /\ nfcCall = [op |-> "none"]
  /\ nfcLog = <<>>
  /\ nfcOut = <<>>

NfcListDevices ==
  /\ npc = "idle"
  /\ UNCHANGED exceptNfc
  /\ \E szDevices \in 0..MaxDevices, usbOk \in BOOLEAN,
        attached \in [1..Len(nfc_drivers) -> 0..MaxDevices] :
       LET r == nfc_list_devices(szDevices, usbOk, attached)
       IN  /\ nfcCall' = [op |-> "list_devices", szDevices |-> szDevices,
                          usbOk |-> usbOk, attached |-> attached, ret |-> r.ret]
           /\ nfcLog' = r.probes
           /\ nfcOut' = [k \in r.written |-> "connstring"]
  /\ npc' = "done"

NfcOpen ==
  /\ npc = "idle"
  /\ UNCHANGED exceptNfc
  /\ \E connstring \in ConnStrings \cup {NoString}, env \in ConnStrings \cup {NoString},
        listed \in ListedFirst, openOk \in BOOLEAN :
       LET r == nfc_open(connstring, env, listed, openOk)
       IN  /\ nfcCall' = [op |-> "open", connstring |-> connstring,
                          ncs |-> r.ncs, openOk |-> openOk, ret |-> r.pnd]
           /\ nfcLog' = r.log
           /\ nfcOut' = <<>>
  /\ npc' = "done"

NfcClose ==
  /\ npc = "idle"
  /\ UNCHANGED exceptNfc
  /\ \E pnd \in {"NULL", "device"} :
       /\ nfcCall' = [op |-> "close", pnd |-> pnd]
       /\ nfcLog' = nfc_close(pnd)
       /\ nfcOut' = <<>>
  /\ npc' = "done"

NfcInitiatorInit ==
  /\ npc = "idle"
  /\ UNCHANGED exceptNfc
  /\ \E failAt \in 0..Len(InitiatorInitWrites), err \in {NFC_EIO, NFC_ENOTSUP},
        drvRes \in {NFC_SUCCESS, NFC_EIO} :
       LET results == [k \in 1..Len(InitiatorInitWrites) |->
                         IF k = failAt THEN err ELSE NFC_SUCCESS]
           r == nfc_initiator_init(results, drvRes)
       IN  /\ nfcCall' = [op |-> "initiator_init", failAt |-> failAt,
                          ret |-> r.res]
           /\ nfcLog' = r.log
           /\ nfcOut' = <<>>
  /\ npc' = "done"

NfcTargetInit ==
  /\ npc = "idle"
  /\ UNCHANGED exceptNfc
  /\ \E failAt \in 0..Len(TargetInitWrites), err \in {NFC_EIO, NFC_ENOTSUP},
        drvRes \in {NFC_SUCCESS, NFC_EIO} :
       LET results == [k \in 1..Len(TargetInitWrites) |->
                         IF k = failAt THEN err ELSE NFC_SUCCESS]
           r == nfc_target_init(results, drvRes)
       IN  /\ nfcCall' = [op |-> "target_init", failAt |-> failAt,
                          ret |-> r.res]
           /\ nfcLog' = r.log
           /\ nfcOut' = <<>>
  /\ npc' = "done"

\* nfc_initiator_list_passive_targets up to the loop
NfcListPassiveStart ==
  /\ npc = "idle"
  /\ UNCHANGED exceptNfc
  /\ \E nmt \in Modulations, szTargets \in 0..MaxTags,
        field \in SUBSET (1..MaxTags), res \in {NFC_SUCCESS, NFC_EIO} :
       /\ nfcCall' = [op |-> "list_passive_targets", nmt |-> nmt,
                      szTargets |-> szTargets, field |-> field,
                      szTargetFound |-> 0, selections |-> 0,
                      lastStored |-> FALSE, ret |-> res]
       /\ nfcLog' = SetPropertyCall("NP_INFINITE_SELECT", FALSE, res)
       /\ npc' = IF res < 0 THEN "done" ELSE "select"
  /\ nfcOut' = <<>>

\* one turn of the loop: the chip selects one of the tags in the field, or
\* none.  The bytes of nt that the driver does not fill are whatever the
\* stack holds.
NfcListPassiveSelect ==
  /\ npc = "select"
  /\ UNCHANGED exceptNfc
  /\ \E selRes \in {0, 1, NFC_EIO}, tag \in 1..MaxTags, pad \in StaleBytes :
       /\ selRes > 0 => tag \in nfcCall.field
       /\ selRes <= 0 => (tag = 1 /\ pad = 0)
       /\ LET nt == [tag |-> tag, pad |-> pad]
              r  == ListPassiveStep(nfcCall.nmt, nfcCall.szTargets,
                                    nfcCall.szTargetFound, nfcOut, selRes, nt)
          IN  /\ nfcCall' = [nfcCall EXCEPT
                               !.szTargetFound = r.found,
                               !.selections = @ + 1,
                               !.lastStored = selRes > 0 /\
                                  \E i \in DOMAIN nfcOut : nfcOut[i] = nt,
                               !.ret = r.found]
              /\ nfcOut' = r.ant
              /\ nfcLog' = nfcLog \o r.log
              /\ npc' = IF r.again THEN "select" ELSE "done"

\* the error a driver returns when nothing answered in time (nfc.h of the
\* sources does not define it yet)
NFC_ETIMEOUT == -6

\* a timeout of one attempt ends the polling like any other error
PollDepStep_timeoutIsError(remaining_time, res) ==
  IF res < 0
    THEN [done |-> TRUE, ret |-> res, remaining_time |-> remaining_time]
  ELSE IF res = 1
    THEN [done |-> TRUE, ret |-> res, remaining_time |-> remaining_time]
  ELSE [done |-> ~(remaining_time - 300 > 0), ret |-> 0,
        remaining_time |-> remaining_time - 300]

\* nfc_initiator_poll_dep_target: one turn of the while loop, res being
\* what nfc_initiator_select_dep_target returned for period = 300; done:
\* the function returns ret
PollDepStep(remaining_time, res) ==
  IF res < 0 /\ res # NFC_ETIMEOUT
    THEN [done |-> TRUE, ret |-> res, remaining_time |-> remaining_time]
  ELSE IF res = 1
    THEN [done |-> TRUE, ret |-> res, remaining_time |-> remaining_time]
  ELSE [done |-> ~(remaining_time - 300 > 0), ret |-> 0,
        remaining_time |-> remaining_time - 300]

\* nfc_initiator_poll_dep_target up to the loop
NfcPollDepStart ==
  /\ npc = "idle"
  /\ UNCHANGED exceptNfc
  /\ \E timeout \in {-1, 0, 1, 300, 301, 900}, res \in {NFC_SUCCESS, NFC_EIO} :
       /\ nfcCall' = [op |-> "poll_dep_target", timeout |-> timeout,
                      remaining_time |-> timeout, propRes |-> res,
                      attempts |-> <<>>, ret |-> IF res < 0 THEN res ELSE 0]
       /\ nfcLog' = SetPropertyCall("NP_INFINITE_SELECT", TRUE, res)
       /\ npc' = IF res < 0 \/ ~(timeout > 0) THEN "done" ELSE "dep"
  /\ nfcOut' = <<>>

\* one turn of the loop: a select attempt of 300 ms and what follows it
NfcPollDepSelect ==
  /\ npc = "dep"
  /\ UNCHANGED exceptNfc
  /\ \E res \in {0, 1, NFC_ETIMEOUT, NFC_EIO} :
       LET r == PollDepStep(nfcCall.remaining_time, res)
       IN  /\ nfcCall' = [nfcCall EXCEPT !.attempts = Append(@, res),
                                         !.remaining_time = r.remaining_time,
                                         !.ret = r.ret]
           /\ nfcLog' = nfcLog \o HAL([fn |-> "initiator_select_dep_target",
                                       timeout |-> 300, res |-> res])
           /\ npc' = IF r.done THEN "done" ELSE "dep"
  /\ UNCHANGED nfcOut

\* the caller has taken the result
NfcRelease ==
  /\ npc = "done"
  /\ npc' = "idle"
  /\ nfcCall' = [op |-> "none"]
  /\ nfcLog' = <<>>
  /\ nfcOut' = <<>>
  /\ UNCHANGED exceptNfc

NextNfc ==
  \/ NfcListDevices
  \/ NfcOpen
  \/ NfcClose
  \/ NfcInitiatorInit
  \/ NfcTargetInit
  \/ NfcListPassiveStart
  \/ NfcListPassiveSelect
  \/ NfcPollDepStart
  \/ NfcPollDepSelect
  \/ NfcRelease

SpecNfc == InitNfc /\ [][NextNfc]_vars

\* a select attempt returns after its 300 ms at the latest, and the loop
\* goes on from there
SpecNfcFair == SpecNfc /\ WF_vars(NfcPollDepSelect)

(***************************************************************************)
(* dev_pn532_uart_connect and dev_pn532_uart_disconnect, followed by the   *)
(* commands sent on the handle.  The PN532 answers the wake-up sequence    *)
(* when the whole of it reached the port, and sends nothing unasked.       *)
(***************************************************************************)
\* number of serial ports tried when no device is described (common.h is
\* not part of the sources)
MAX_DEVICES == 2

pncmd_pn532c106_wakeup ==
  <<85, 85, 0, 0, 0, 0, 0, 255, 3, 253, 212, 20, 1, 23, 0>>

\* what the PN532 sends back: the ACK frame and the response to D4 14
WakeReply == pn53x_ack_frame \o ChipFrame(213, 21, <<>>, 0, 0)

\* the loop over the ports: the number of the first port that rs232_open
\* gives, MAX_DEVICES when it gives none
RECURSIVE AutoProbe(_, _)
AutoProbe(opens, uiDevNr) ==
  IF uiDevNr = MAX_DEVICES THEN MAX_DEVICES
  ELSE IF opens[uiDevNr + 1] = "ok" THEN uiDevNr
  ELSE AutoProbe(opens, uiDevNr + 1)

\* dev_pn532_uart_connect.  pndd: "NULL" or "given"; opens: what rs232_open
\* gives for each port tried; rcv: what rs232_receive gives after the
\* wake-up sequence was handed to rs232_send, whose result is not looked
\* at.  sends: the rs232_send calls made, portOpen: the port is left open
dev_pn532_uart_connect(pndd, opens, rcv) ==
  LET found == IF pndd = "NULL" THEN AutoProbe(opens, 0) < MAX_DEVICES
               ELSE opens[1] = "ok"
  IN  IF ~found
        THEN [pdi |-> "INVALID_DEVICE_INFO", sends |-> <<>>, portOpen |-> FALSE]
      ELSE IF ~rcv.ret
        THEN [pdi |-> "NULL", sends |-> <<pncmd_pn532c106_wakeup>>,
              portOpen |-> TRUE]
      ELSE [pdi |-> "device", sends |-> <<pncmd_pn532c106_wakeup>>,
            portOpen |-> TRUE]

InitWake ==
  /\ CallIdle
  /\ BitIdle
  /\ DecIdle
  /\ PollIdle
  /\ PropIdle
  /\ SerIdle
  /\ SioIdle
  /\ NfcIdle
  /\ RegIdle
  /\ wpc = "closed"
  /\ wake = [done |-> FALSE, claimed |-> {}]

\* one call of dev_pn532_uart_connect.  accepted: the bytes of the wake-up
\* sequence the OS took (-1: the write failed); present: a PN532 is on the
\* port; the rest is what the OS does in rs232_receive.  wake.claimed: the
\* ports on which an earlier rs232_open set the claim sentinel and no
\* rs232_close restored the flags; rs232_open refuses them
UartConnect ==
  /\ wpc = "closed"
  /\ \E pndd \in {"NULL", "given"},
        opens \in [1..MAX_DEVICES -> {"ok", "INVALID_SERIAL_PORT", "CLAIMED_SERIAL_PORT"}],
        accepted \in {-1, 7, Len(pncmd_pn532c106_wakeup)},
        present \in BOOLEAN, selFail \in BOOLEAN, ioctlOk \in BOOLEAN,
        stale \in {0, BUFFER_LENGTH}, readFail \in BOOLEAN :
       LET pending == IF present /\ accepted = Len(pncmd_pn532c106_wakeup)
                        THEN Len(WakeReply) ELSE 0
           iResult == IF selFail THEN -1 ELSE IF pending > 0 THEN 1 ELSE 0
           byteCount == IF ioctlOk THEN pending ELSE stale
           nread == IF readFail THEN -1 ELSE Min(byteCount, pending)
           rcv == rs232_receive_unix(iResult, byteCount, nread, stale)
           c == dev_pn532_uart_connect(pndd, opens, rcv)
           opened == IF pndd = "NULL" THEN AutoProbe(opens, 0) + 1 ELSE 1
       IN  /\ \A i \in 1..MAX_DEVICES :
                 i \in wake.claimed <=> opens[i] = "CLAIMED_SERIAL_PORT"
           /\ wake' = [done |-> TRUE, pdi |-> c.pdi,
                       transmitted |-> IF c.sends = <<>> \/ accepted < 0 THEN <<>>
                                       ELSE SubSeq(c.sends[1], 1, accepted),
                       replyRead |-> IF c.sends # <<>> /\ rcv.asked >= 0 /\ nread > 0
                                       THEN nread ELSE 0,
                       portOpen |-> c.portOpen,
                       port |-> opened,
                       claimed |-> IF c.pdi = "NULL"
                                     THEN wake.claimed \cup {opened}
                                     ELSE wake.claimed]
           /\ IF c.pdi = "device"
                THEN /\ wpc' = "open"
                     /\ pc' = "idle"
                     /\ iLastError' \in UninitErrors
                     /\ drvLastError' = iLastError'
                ELSE /\ wpc' = "closed"
                     /\ UNCHANGED <<pc, iLastError, drvLastError>>
  /\ UNCHANGED <<driver, layer, pbtTx, wantRx, io, txOverflow, ret, drvRet,
                 pbtRx, delivered, rxByte0>>
  /\ UNCHANGED <<bitVars, decVars, pollVars, propVars, serVars, sioVars,
                 nfcVars, regVars>>

\* dev_pn532_uart_disconnect: rs232_close and free
UartDisconnect ==
  /\ wpc = "open" /\ pc = "idle"
  /\ wpc' = "closed"
  /\ wake' = [done |-> FALSE, claimed |-> wake.claimed]
  /\ pc' = "off" /\ iLastError' = 0 /\ drvLastError' = 0
  /\ UNCHANGED <<driver, layer, pbtTx, wantRx, io, txOverflow, ret, drvRet,
                 pbtRx, delivered, rxByte0>>
  /\ UNCHANGED <<bitVars, decVars, pollVars, propVars, serVars, sioVars,
                 nfcVars, regVars>>

NextWake ==
  \/ UartConnect
  \/ UartSend
  \/ UartReceive
  \/ Release
  \/ UartDisconnect

SpecWake == InitWake /\ [][NextWake]_vars

(***************************************************************************)
(* pn53x.c: pn53x_get_reg, pn53x_set_reg and pn53x_set_tx_bits on one      *)
(* handle.  A pn53x_transceive of ReadRegister either returns true and     *)
(* delivers the byte the chip holds, or returns false and delivers         *)
(* nothing; a WriteRegister that returns true was carried out by the chip, *)
(* one that returns false may have been carried out or not.                *)
(***************************************************************************)
\* the three low bits of the bit-framing register (pn53x.h is not part of
\* the sources)
SYMBOL_TX_LAST_BITS == 7

\* pn53x_get_reg: the command, and the byte returned.  The result of
\* pn53x_transceive is not looked at; when it failed, ui8Value was never
\* written and is returned as it is
pn53x_get_reg(ui16Reg, readOk, held, stale) ==
  [cmd |-> <<212, 6, ui16Reg>>, value |-> IF readOk THEN held ELSE stale]

\* pn53x_set_reg: the commands handed to pn53x_transceive, in order
pn53x_set_reg(ui16Reg, ui8SymbolMask, ui8Value, readOk, held, stale) ==
  LET got == pn53x_get_reg(ui16Reg, readOk, held, stale)
  IN  <<got.cmd,
        <<212, 8, ui16Reg, BitOr(ui8Value, BitAnd(got.value, 255 - ui8SymbolMask))>>>>

\* the cache is updated whatever pn53x_set_reg returned
pn53x_set_tx_bits_alwaysStore(cached, ui8Bits, setRegRes) ==
  IF cached # ui8Bits
    THEN [res |-> setRegRes, ui8TxBits |-> ui8Bits, issued |-> TRUE]
    ELSE [res |-> TRUE, ui8TxBits |-> cached, issued |-> FALSE]

\* pn53x_set_tx_bits: the value returned, pnd->ui8TxBits afterwards, and
\* whether pn53x_set_reg was called
pn53x_set_tx_bits(cached, ui8Bits, setRegRes) ==
  IF cached # ui8Bits
    THEN IF ~setRegRes
           THEN [res |-> FALSE, ui8TxBits |-> cached, issued |-> TRUE]
           ELSE [res |-> TRUE, ui8TxBits |-> ui8Bits, issued |-> TRUE]
    ELSE [res |-> TRUE, ui8TxBits |-> cached, issued |-> FALSE]

\* state right after connect: pnd->ui8TxBits = 0; what the registers hold
\* is not known
InitReg ==
  /\ CallIdle
  /\ BitIdle
  /\ DecIdle
  /\ PollIdle
  /\ PropIdle
  /\ SerIdle
  /\ SioIdle
  /\ NfcIdle
  /\ WakeIdle
  /\ rgpc = "idle"
  /\ regChip \in [{"REG_CIU_BIT_FRAMING", "REG_CIU_TX_MODE"} -> {0, 165}]
  /\ ui8TxBits = 0
  /\ txBitsWritten = 0
  /\ regCall = [fn |-> "none"]

\* one call of pn53x_set_reg on ui16Reg: the exchange with the chip and the
\* record of the call, res being what the caller of fn gets
SetRegCall(fn, ui16Reg, ui8SymbolMask, ui8Value, readOk, stale, writeOk, applied, res) ==
  LET cmds == pn53x_set_reg(ui16Reg, ui8SymbolMask, ui8Value, readOk,
                            regChip[ui16Reg], stale)
  IN  /\ regChip' = IF applied THEN [regChip EXCEPT ![ui16Reg] = cmds[2][4]]
                    ELSE regChip
      /\ regCall' = [fn |-> fn, reg |-> ui16Reg, mask |-> ui8SymbolMask,
                     value |-> ui8Value, before |-> regChip[ui16Reg],
                     readOk |-> readOk, cmds |-> cmds, setRegRes |-> writeOk,
                     cached |-> ui8TxBits, res |-> res]

\* pn53x_set_reg called on a register other than the bit-framing register,
\* with a value inside the mask
SetReg ==
  /\ rgpc = "idle"
  /\ \E ui8SymbolMask \in {SYMBOL_TX_LAST_BITS, 240}, readOk \in BOOLEAN,
        stale \in {0, 255}, writeOk \in BOOLEAN :
     \E ui8Value \in {0, ui8SymbolMask, BitAnd(ui8SymbolMask, 85)},
        applied \in (IF writeOk THEN {TRUE} ELSE BOOLEAN) :
       SetRegCall("pn53x_set_reg", "REG_CIU_TX_MODE", ui8SymbolMask, ui8Value,
                  readOk, stale, writeOk, applied, writeOk)
  /\ rgpc' = "done"
  /\ UNCHANGED <<ui8TxBits, txBitsWritten>>
  /\ UNCHANGED exceptReg

\* pn53x_set_tx_bits with a number of bits of the last byte (below 8)
SetTxBits ==
  /\ rgpc = "idle"
  /\ \E ui8Bits \in {0, 1, 5, 7}, readOk \in BOOLEAN, stale \in {0, 255},
        writeOk \in BOOLEAN :
     \E applied \in (IF writeOk THEN {TRUE} ELSE BOOLEAN) :
       LET r == pn53x_set_tx_bits(ui8TxBits, ui8Bits, writeOk)
       IN  /\ IF r.issued
                THEN /\ SetRegCall("pn53x_set_tx_bits", "REG_CIU_BIT_FRAMING",
                                   SYMBOL_TX_LAST_BITS, ui8Bits, readOk, stale,
                                   writeOk, applied, r.res)
                     /\ txBitsWritten' =
                          IF writeOk
                            THEN BitAnd(regCall'.cmds[2][4], SYMBOL_TX_LAST_BITS)
                            ELSE txBitsWritten
                ELSE /\ regCall' = [fn |-> "pn53x_set_tx_bits",
                                    reg |-> "REG_CIU_BIT_FRAMING",
                                    mask |-> SYMBOL_TX_LAST_BITS,
                                    value |-> ui8Bits,
                                    before |-> regChip["REG_CIU_BIT_FRAMING"],
                                    readOk |-> TRUE, cmds |-> <<>>,
                                    setRegRes |-> TRUE, cached |-> ui8TxBits,
                                    res |-> r.res]
                     /\ UNCHANGED <<regChip, txBitsWritten>>
           /\ ui8TxBits' = r.ui8TxBits
  /\ rgpc' = "done"
  /\ UNCHANGED exceptReg

\* the caller has taken the result
RegRelease ==
  /\ rgpc = "done"
  /\ rgpc' = "idle"
  /\ regCall' = [fn |-> "none"]
  /\ UNCHANGED <<regChip, ui8TxBits, txBitsWritten>>
  /\ UNCHANGED exceptReg

NextReg ==
  \/ SetReg
  \/ SetTxBits
  \/ RegRelease

SpecReg == InitReg /\ [][NextReg]_vars

(***************************************************************************)
(* Observations on a call, used by the properties below.                   *)
(***************************************************************************)
IsPrefix(a, b) == Len(a) <= Len(b) /\ \A i \in 1..Len(a) : b[i] = a[i]

\* the command frame went out and something was read back
Answered == Len(io) >= 2 /\ io[2].dir = "rx"

\* the bytes found where the ACK frame is expected
AckSlot ==
  IF driver = "pn53x_usb" THEN io[2].bytes
  ELSE SubSeq(io[2].bytes, 1, IF Len(io[2].bytes) < 6 THEN Len(io[2].bytes) ELSE 6)

\* a second frame followed the ACK slot
HasResponse ==
  /\ Answered
  /\ IF driver = "pn53x_usb" THEN Len(io) >= 3 /\ io[3].dir = "rx"
     ELSE Len(io[2].bytes) > 6

\* the bytes that followed the ACK slot
RespSlot ==
  IF driver = "pn53x_usb" THEN io[3].bytes
  ELSE SubSeq(io[2].bytes, 7, Len(io[2].bytes))

\* f is 00 00 FF LEN LCS <LEN bytes> DCS 00
FrameShaped(f) ==
  /\ Len(f) >= 7
  /\ f[1] = 0 /\ f[2] = 0 /\ f[3] = 255
  /\ f[4] = Len(f) - 7
  /\ f[Len(f)] = 0

LcsOk(f) == (f[4] + f[5]) % 256 = 0
DcsOk(f) == (SumBytes(f, 6, Len(f) - 2) + f[Len(f) - 1]) % 256 = 0

\* f is the standard information frame that carries payload P
StandardFrame(f, P) ==
  /\ Len(f) = Len(P) + 7
  /\ FrameShaped(f)
  /\ f[4] = Len(P)
  /\ LcsOk(f)
  /\ SubSeq(f, 6, 5 + Len(P)) = P
  /\ DcsOk(f)

\* f is a well-formed response 00 00 FF LEN LCS D5 (opcode+1) d1..dn DCS 00
\* to the command of the call
WellFormedResponse(f) ==
  /\ Len(f) >= 9
  /\ FrameShaped(f) /\ LcsOk(f) /\ DcsOk(f)
  /\ f[6] = 213
  /\ f[7] = (pbtTx[2] + 1) % 256

\* d1..dn of a response frame
RespData(f) == SubSeq(f, 8, Len(f) - 2)

\* the bytes of the ACK slot and of the response fit the receive array
FitsReceiveArray ==
  IF driver = "pn53x_usb" THEN Len(io[3].bytes) <= BUFFER_LENGTH
  ELSE Len(io[2].bytes) <= BUFFER_LENGTH

(***************************************************************************)
(* Properties.                                                             *)
(***************************************************************************)

\* C1: for every payload P handed to the transceive of pn53x_usb or
\* pn532_uart, the bytes put on the wire are 00 00 FF LEN LCS P DCS 00 with
\* LEN = |P|, LEN + LCS = 0 mod 256 and sum(P) + DCS = 0 mod 256; D4 02 goes
\* out as 00 00 FF 02 FE D4 02 2A 00.
C1_WireFrame ==
  (driver \in {"pn53x_usb", "pn532_uart"} /\ Len(io) >= 1 /\ io[1].dir = "tx")
    => /\ StandardFrame(io[1].bytes, pbtTx)
       /\ pbtTx = <<212, 2>> => io[1].bytes = <<0, 0, 255, 2, 254, 212, 2, 42, 0>>

\* C2: for every payload P with |P| <= 255 the frame has |P| + 7 bytes (after
\* the selector byte on arygon), lies entirely inside the transmit array, and
\* the bytes between LCS and DCS are P again.
C2_FrameInBuffer ==
  (driver # "none" /\ Len(pbtTx) <= 255 /\ Len(io) >= 1 /\ io[1].dir = "tx")
    => LET f == IF driver = "arygon" THEN Tail(io[1].bytes) ELSE io[1].bytes
       IN  /\ ~txOverflow
           /\ Len(f) = Len(pbtTx) + 7
           /\ SubSeq(f, 6, Len(f) - 2) = pbtTx

\* C3: a response frame whose LCS or DCS is wrong is rejected: transceive
\* does not return success and delivers nothing (stated for the calls that
\* ask for the answer).
C3_ChecksumsChecked ==
  (pc = "done" /\ wantRx /\ HasResponse /\ FrameShaped(RespSlot)
     /\ (~LcsOk(RespSlot) \/ ~DcsOk(RespSlot)))
    => ~drvRet /\ ~delivered

\* C4: on every transport, transceive returns success only if the ACK slot
\* held the ACK frame 00 00 FF 00 FF 00 (stated for the calls that ask for
\* the answer).
C4_AckValidated ==
  (pc = "done" /\ wantRx /\ drvRet) => (Answered /\ AckSlot = pn53x_ack_frame)

\* C5: a command answered by NACK is sent again at least once and at most 3
\* times before the call fails with DENACK.
C5_NackRetried ==
  (pc = "done" /\ driver = "pn53x_usb" /\ Answered /\ AckSlot = pn53x_nack_frame)
    => LET sent == Cardinality({i \in 1..Len(io) :
                                  io[i].dir = "tx" /\ io[i].bytes = io[1].bytes})
       IN  /\ sent >= 2 /\ sent <= 4
           /\ ~ret /\ iLastError = DENACK

\* C6: when the first frame read after the command is neither ACK nor NACK,
\* the command fails with DEACKMISMATCH, no response frame is read and no
\* host ACK is written.
C6_AckMismatch ==
  (pc = "done" /\ driver = "pn53x_usb" /\ Answered
     /\ AckSlot # pn53x_ack_frame /\ AckSlot # pn53x_nack_frame)
    => /\ ~ret /\ ~drvRet
       /\ iLastError = 512
       /\ Len(io) = 2

C6_Witness ==
  /\ pc = "done" /\ driver = "pn53x_usb" /\ Answered
  /\ AckSlot = <<0, 0, 255, 0, 254, 0>>
  /\ ~ret /\ iLastError = 512 /\ Len(io) = 2

\* C7: after a successful driver transceive, pn53x_transceive sets the last
\* error to rx[0] AND 0x3F exactly for the opcodes 16 40 42 44 46 4E 50 52
\* 54 56 86 88 8E 90 92 94 and to 0 for every other opcode, and returns
\* success if and only if that last error is 0.
C7_StatusDecoded ==
  (pc = "done" /\ layer = "chip" /\ drvRet)
    => /\ iLastError =
            IF pbtTx[2] \in {22, 64, 66, 68, 70, 78, 80, 82, 84, 86,
                             134, 136, 142, 144, 146, 148}
              THEN rxByte0 % 64 ELSE 0
       /\ ret <=> (iLastError = 0)

C7_Witness ==
  /\ pc = "done" /\ layer = "chip" /\ drvRet
  /\ pbtTx[2] = 148 /\ rxByte0 = 193 /\ iLastError = 1 /\ ~ret

C9_RoundTrip ==
  (bpc = "unwrapped" /\ szTxBits = 8 * Len(bitTx))
    => /\ unwrapRet
       /\ szRxBits = szTxBits
       /\ IsPrefix(bitTx, bitRx)
       /\ IsPrefix(bitTxPar, bitRxPar)

\* C9 amended: for equal length >= 2 the round trip returns the bit count
\* 8|D| and D and PA as the first |D| data bytes and parity bits; for length
\* 1 it returns the byte and the bit count 8, and no parity bit.
C9_RoundTripAmended ==
  (bpc = "unwrapped" /\ szTxBits = 8 * Len(bitTx))
    => /\ unwrapRet
       /\ szRxBits = szTxBits
       /\ IsPrefix(bitTx, bitRx)
       /\ IF Len(bitTx) >= 2 THEN IsPrefix(bitTxPar, bitRxPar)
                             ELSE bitRxPar = <<>>

C9_Witness ==
  /\ bpc = "unwrapped" /\ szTxBits = 72 /\ Len(bitTx) = 9
  /\ szFrameBits = 81 /\ szRxBits = 72
  /\ IsPrefix(bitTx, bitRx) /\ IsPrefix(bitTxPar, bitRxPar)
  /\ bitTxPar[1] # bitTxPar[2]

\* C10: a frame of 1 to 8 bits passes through wrap and through unwrap as the
\* same single byte with the same bit count and no parity bit; a frame of 0
\* bits is rejected by both.
C10_ShortFrames ==
  /\ (bpc = "wrapped" /\ szTxBits \in 1..8)
       => wrapRet /\ bitFrame = <<bitTx[1]>> /\ szFrameBits = szTxBits
  /\ (bpc \in {"unwrapped", "air"} /\ szTxBits \in 1..8)
       => unwrapRet /\ bitRx = <<bitTx[1]>> /\ szRxBits = szTxBits
            /\ bitRxPar = <<>>
  /\ (bpc = "wrapped" /\ szTxBits = 0) => ~wrapRet /\ bitFrame = <<>>
  /\ (bpc = "air" /\ szTxBits = 0) => ~unwrapRet /\ bitRx = <<>>

C10_Witness ==
  /\ bpc = "unwrapped" /\ bitTx = <<38>> /\ szTxBits = 7
  /\ bitFrame = <<38>> /\ szFrameBits = 7 /\ bitRx = <<38>> /\ szRxBits = 7

(***************************************************************************)
(* Observations on a decoded target.                                       *)
(***************************************************************************)
DecodedIso14443a ==
  dpc = "done" /\ decNtt \in {"NTT_MIFARE", "NTT_GENERIC_PASSIVE_106"}

\* the buffer holds Tg, ATQA, SAK, the UID length and the whole UID
HoldsUid == Len(decRaw) >= 5 /\ Len(decRaw) >= 5 + decRaw[5]

RawUid == SubSeq(decRaw, 6, 5 + decRaw[5])

\* the bytes the decoder of the type reads without looking at any length
MinTargetData(ntt) ==
  IF ntt \in {"NTT_MIFARE", "NTT_GENERIC_PASSIVE_106"} THEN 5
  ELSE IF ntt = "NTT_ISO14443B_106" THEN 22
  ELSE IF ntt \in {"NTT_FELICA_212", "NTT_FELICA_424"} THEN 19
  ELSE IF ntt = "NTT_JEWEL_106" THEN 7
  ELSE 0

\* C11: for an ISO14443A target the two ATQA bytes b0 b1 that follow Tg are
\* stored as b1 b0 exactly when the chip is a PN531 and as b0 b1 on PN532 and
\* PN533; SAK and UID are what the raw bytes give, whatever the chip.
C11_AtqaSwap ==
  (DecodedIso14443a /\ HoldsUid) =>
     /\ decRet
     /\ decInfo.abtAtqa = IF decNc = "NC_PN531"
                            THEN <<decRaw[3], decRaw[2]>>
                            ELSE <<decRaw[2], decRaw[3]>>
     /\ decInfo.btSak = decRaw[4]
     /\ (decRaw[6] # 136 => /\ decInfo.szUidLen = decRaw[5]
                            /\ decInfo.abtUid = RawUid)
     /\ (decRaw[6] = 136 => /\ decInfo.szUidLen \in {decRaw[5], decRaw[5] - 1, decRaw[5] - 2}
                            /\ decInfo.abtUid[decInfo.szUidLen] = RawUid[decRaw[5]])

C11_Witness ==
  /\ dpc = "done" /\ decNc = "NC_PN531" /\ decNtt = "NTT_MIFARE"
  /\ decRaw = <<1, 68, 3, 8, 4, 170, 187, 204, 221>>
  /\ decInfo.abtAtqa = <<3, 68>> /\ decInfo.btSak = 8
  /\ decInfo.abtUid = <<170, 187, 204, 221>>

\* C12: every ISO14443A raw UID that begins with the cascade tag 0x88 is
\* reported without that leading byte, with the length reduced by one.
C12_CascadeStrip ==
  (DecodedIso14443a /\ HoldsUid /\ decRaw[6] = 136) =>
     /\ decInfo.szUidLen = decRaw[5] - 1
     /\ decInfo.abtUid = Tail(RawUid)

\* C12 (amended): an 8-byte raw UID that begins with 0x88 is reported as its
\* last seven bytes; a 12-byte raw UID with 0x88 at offsets 0 and 4 is
\* reported with length 10; any other raw UID that begins with 0x88 is
\* reported unchanged.
C12_CascadeStripAmended ==
  (DecodedIso14443a /\ HoldsUid /\ decRaw[6] = 136) =>
     IF decRaw[5] = 8
       THEN decInfo.szUidLen = 7 /\ decInfo.abtUid = Tail(RawUid)
     ELSE IF decRaw[5] = 12 /\ RawUid[5] = 136
       THEN decInfo.szUidLen = 10
     ELSE decInfo.szUidLen = decRaw[5] /\ decInfo.abtUid = RawUid

C12_Witness ==
  /\ dpc = "done" /\ decNtt = "NTT_GENERIC_PASSIVE_106"
  /\ decRaw = <<1, 0, 4, 8, 8, 136, 4, 90, 107, 49, 194, 133, 7>>
  /\ decInfo.szUidLen = 7
  /\ decInfo.abtUid = <<4, 90, 107, 49, 194, 133, 7>>

\* C13: a 12-byte raw UID with cascade tags 0x88 at offsets 0 and 4 is
\* reported as 10 bytes: raw bytes 1..3 followed by raw bytes 5..11, in
\* their order.
C13_DoubleCascade ==
  (DecodedIso14443a /\ HoldsUid /\ decRaw[5] = 12
     /\ RawUid[1] = 136 /\ RawUid[5] = 136) =>
     /\ decInfo.szUidLen = 10
     /\ decInfo.abtUid = SubSeq(RawUid, 2, 4) \o SubSeq(RawUid, 6, 12)

C13_Witness ==
  /\ dpc = "done" /\ decNtt = "NTT_MIFARE" /\ decNc = "NC_PN532"
  /\ HoldsUid /\ decRaw[5] = 12
  /\ decInfo.szUidLen = 10
  /\ decInfo.abtUid = <<1, 2, 3, 5, 6, 7, 8, 9, 10, 11>>

\* C14: when the buffer handed over is shorter than the least payload of the
\* declared type, down to length 0, the decoder fails and reads no byte past
\* the end of the buffer.
C14_ShortBufferRejected ==
  (dpc = "done" /\ Len(decRaw) < MinTargetData(decNtt)) =>
     /\ ~decRet
     /\ decRead <= Len(decRaw)

C16_IoErrorPoisons ==
  [][(pc = "idle" /\ iLastError = DEIO /\ driver' = "pn53x_usb") =>
       (io' = <<>> /\ pc' = "done" /\ ~ret' /\ iLastError' = DEIO)]_vars

\* C17: whenever an operation on the handle returns failure, the handle's
\* last error code is not 0 at return.
C17_FailureHasError ==
  (ppc = "done" /\ ~pollRet) => pollErr # 0

\* C18: while a process holds the port (its rs232_open succeeded and it has
\* not closed), an rs232_open of the same port by another process, made
\* after the holder's, does not give a usable port: it returns
\* CLAIMED_SERIAL_PORT (INVALID_SERIAL_PORT when one of its own system calls
\* fails) and the port carries the settings it carried before: the holder's
\* line settings, speed and the claim.
C18_SecondOpenRefused ==
  \A p \in Procs :
    (serLast = p /\ serCall[p].op = "open" /\ serCall[p].done /\ serCall[p].held) =>
       /\ serCall[p].ret # "ok"
       /\ ~serCall[p].osFail => serCall[p].ret = "CLAIMED_SERIAL_PORT"
       /\ port = serCall[p].before
       /\ port.claimed
       /\ \E q \in Procs \ {p} : sp[q].st = "open"

C18_Witness ==
  /\ serLast = "B" /\ serCall["B"].op = "open" /\ serCall["B"].done
  /\ serCall["B"].held /\ serCall["B"].ret = "CLAIMED_SERIAL_PORT"
  /\ sp["A"].st = "open"
  /\ port = [claimed |-> TRUE, line |-> "raw", speed |-> 115200]

\* C19: rs232_close restores the settings saved at open and then releases
\* the descriptor; every failing exit of rs232_open releases the descriptor;
\* so right after a close the port carries the settings it had before the
\* open, with the claim clear, and the open that follows the close succeeds
\* (when its own system calls do).
C19_CloseRestores ==
  \A p \in Procs :
    /\ (serLast = p /\ serCall[p].op = "close") =>
          /\ port = serCall[p].preOpen
          /\ ~port.claimed
          /\ ~sp[p].fd
    /\ (serCall[p].op = "open" /\ serCall[p].done /\ serCall[p].ret # "ok") =>
          ~sp[p].fd
    /\ (serLast = p /\ serCall[p].op = "open" /\ serCall[p].done
          /\ serCall[p].prev = "close" /\ ~serCall[p].osFail) =>
          serCall[p].ret = "ok"

C19_Witness ==
  /\ serLast = "B" /\ serCall["B"].op = "open" /\ serCall["B"].done
  /\ serCall["B"].prev = "close" /\ serCall["B"].ret = "ok"
  /\ serCall["A"].op = "close"
  /\ serCall["B"].preOpen = serCall["A"].preOpen

\* C20: for a value outside {9600, 19200, 38400, 57600, 115200, 230400,
\* 460800} rs232_set_speed reports the invalid argument and changes neither
\* the stored terminal settings nor the speed of the port.
C20_InvalidSpeedRejected ==
  \A p \in Procs :
    (serLast = p /\ serCall[p].op = "set_speed" /\ serCall[p].arg \notin ValidSpeeds) =>
       /\ Len(serCall[p].log) > 0
       /\ sp[p].tiNew = serCall[p].tiNewBefore
       /\ port.speed = serCall[p].before.speed

(***************************************************************************)
(* C21: rs232_receive returns failure with a reported length of 0 when the *)
(* wait times out or fails; it returns success only when at least one byte *)
(* was read, and the reported length is then the number of bytes read,     *)
(* which is the number the OS reported available.                          *)
(***************************************************************************)
C21_ReceiveContract ==
  (rwpc = "done" /\ rwCall.op = "receive") =>
    /\ rwCall.iResult <= 0 => (~rwCall.ret /\ rwCall.len = 0)
    /\ rwCall.ret =>
         /\ rwCall.readCalled /\ rwCall.nread >= 1
         /\ rwCall.len = rwCall.nread
         /\ rwCall.ioctlOk => rwCall.len = rwCall.byteCount

(***************************************************************************)
(* C22: rs232_send returns success if and only if the OS accepted all      *)
(* szTxLen bytes; a short write and a failed write are failures.           *)
(***************************************************************************)
C22_SendWhole ==
  (rwpc = "done" /\ rwCall.op = "send") =>
    (rwCall.ret <=> rwCall.accepted = rwCall.szTxLen)

(***************************************************************************)
(* C23: nfc_list_devices never reports more than szDevices devices and     *)
(* never stores an entry beyond index szDevices - 1 of the caller's array, *)
(* for every capacity from 0 on and every set of attached devices.         *)
(***************************************************************************)
C23_ListWithinCap ==
  (npc = "done" /\ nfcCall.op = "list_devices") =>
    /\ nfcCall.ret <= nfcCall.szDevices
    /\ \A k \in DOMAIN nfcOut : k <= nfcCall.szDevices - 1

\* the text of a connection string before its first ':'
RECURSIVE UpToColon(_, _)
UpToColon(str, k) ==
  IF k > Len(str) \/ str[k] = ":" THEN SubSeq(str, 1, k - 1)
  ELSE UpToColon(str, k + 1)

DriverPart(str) == UpToColon(str, 1)

\* the smallest element of a non-empty set of numbers
Least(S) == CHOOSE x \in S : \A y \in S : x <= y

\* nfc_open on connection string ncs called the open of the first driver
\* of Sel and no other, and returned a device exactly when that open gave
\* one; with Sel empty it returned NULL and called no driver
OpenDispatched(Sel) ==
  IF Sel = {}
    THEN nfcCall.ret = "NULL" /\ nfcLog = <<>>
    ELSE /\ nfcLog = <<[fn |-> "open", driver |-> Least(Sel)]>>
         /\ nfcCall.ret = "NULL" <=> ~nfcCall.openOk

(***************************************************************************)
(* C24 as stated: nfc_open dispatches to the first driver in registry      *)
(* order whose name equals the part of the connection string before the    *)
(* first ':'; when no name equals that part it returns NULL without        *)
(* calling any open; when the selected open fails it returns NULL without  *)
(* trying another driver.                                                  *)
(***************************************************************************)
C24_DispatchByName ==
  (npc = "done" /\ nfcCall.op = "open") =>
    OpenDispatched({i \in 1..Len(nfc_drivers) :
                      nfc_drivers[i] = DriverPart(nfcCall.ncs)})

(***************************************************************************)
(* C24 amended: nfc_open dispatches to the first driver in registry order  *)
(* whose name is a prefix of the connection string, whatever character     *)
(* follows the name; when no name is a prefix it returns NULL without      *)
(* calling any open; when the selected open fails it returns NULL without  *)
(* trying another driver.                                                  *)
(***************************************************************************)
C24_DispatchByPrefix ==
  (npc = "done" /\ nfcCall.op = "open") =>
    OpenDispatched({i \in 1..Len(nfc_drivers) :
                      IsPrefix(nfc_drivers[i], nfcCall.ncs)})

\* a connection string whose driver part is no driver's name was handed to
\* a driver
C24_Witness ==
  /\ npc = "done" /\ nfcCall.op = "open"
  /\ nfcCall.ncs = nfc_drivers[1] \o <<"x", ":", "1">>
  /\ nfcLog = <<[fn |-> "open", driver |-> 1]>>
  /\ nfcCall.ret = "device"

(***************************************************************************)
(* C25: nfc_close on a non-null handle puts the device in idle mode and    *)
(* then calls the driver's close, each once and in that order; on a null   *)
(* handle it makes no driver call.                                         *)
(***************************************************************************)
C25_IdleThenClose ==
  (npc = "done" /\ nfcCall.op = "close") =>
    IF nfcCall.pnd = "NULL"
      THEN nfcLog = <<>>
      ELSE nfcLog = <<[fn |-> "idle"], [fn |-> "close"]>>

C25_Witness ==
  /\ npc = "done" /\ nfcCall.op = "close" /\ nfcCall.pnd = "device"
  /\ Len(nfcLog) = 2

\* entry e of the log is the write of value v to property p
IsWrite(e, p, v) ==
  /\ e.fn = "device_set_property_bool"
  /\ e.args.property = p
  /\ e.args.bEnable = v

\* the writes of the log were all accepted, and the last one made to
\* property p stored value v
Configured(p, v) ==
  LET ks == {k \in 1..Len(nfcLog) :
               /\ nfcLog[k].fn = "device_set_property_bool"
               /\ nfcLog[k].args.property = p}
  IN  /\ ks # {}
      /\ \A k \in ks : nfcLog[k].res >= 0
      /\ \E k \in ks : /\ \A j \in ks : j <= k
                       /\ nfcLog[k].args.bEnable = v

(***************************************************************************)
(* C26: nfc_initiator_init writes, in this order, field off, field on,     *)
(* infinite-select on, auto-ISO14443-4 on, force-ISO14443-A on,            *)
(* force-speed-106 on, accept-invalid-frames off, accept-multiple-frames   *)
(* off, handle-CRC on, handle-parity on, easy-framing on, Crypto1 off, and *)
(* only then calls the driver's initiator_init; a write that fails ends    *)
(* the call with its error, before any later write and before the driver   *)
(* call.                                                                   *)
(***************************************************************************)
C26_InitiatorInitOrder ==
  (npc = "done" /\ nfcCall.op = "initiator_init") =>
    LET n == Len(nfcLog)
    IN  /\ n <= 13
        /\ n >= 1  => IsWrite(nfcLog[1], "NP_ACTIVATE_FIELD", FALSE)
        /\ n >= 2  => IsWrite(nfcLog[2], "NP_ACTIVATE_FIELD", TRUE)
        /\ n >= 3  => IsWrite(nfcLog[3], "NP_INFINITE_SELECT", TRUE)
        /\ n >= 4  => IsWrite(nfcLog[4], "NP_AUTO_ISO14443_4", TRUE)
        /\ n >= 5  => IsWrite(nfcLog[5], "NP_FORCE_ISO14443_A", TRUE)
        /\ n >= 6  => IsWrite(nfcLog[6], "NP_FORCE_SPEED_106", TRUE)
        /\ n >= 7  => IsWrite(nfcLog[7], "NP_ACCEPT_INVALID_FRAMES", FALSE)
        /\ n >= 8  => IsWrite(nfcLog[8], "NP_ACCEPT_MULTIPLE_FRAMES", FALSE)
        /\ n >= 9  => IsWrite(nfcLog[9], "NP_HANDLE_CRC", TRUE)
        /\ n >= 10 => IsWrite(nfcLog[10], "NP_HANDLE_PARITY", TRUE)
        /\ n >= 11 => IsWrite(nfcLog[11], "NP_EASY_FRAMING", TRUE)
        /\ n >= 12 => IsWrite(nfcLog[12], "NP_ACTIVATE_CRYPTO1", FALSE)
        /\ n = 13  => nfcLog[13].fn = "initiator_init"
        /\ nfcCall.ret = 0 => n = 13
        /\ \A k \in 1..n :
             nfcLog[k].res < 0 => (k = n /\ nfcCall.ret = nfcLog[k].res)
        /\ nfcCall.failAt > 0 => (n = nfcCall.failAt /\ nfcLog[n].res < 0)

C26_Witness ==
  /\ npc = "done" /\ nfcCall.op = "initiator_init"
  /\ nfcCall.ret = 0 /\ Len(nfcLog) = 13

(***************************************************************************)
(* C27: when nfc_target_init calls the driver's target_init, the           *)
(* configuration it has written is easy-framing off, RF field off,         *)
(* accept-invalid-frames off, accept-multiple-frames off, handle-CRC on,   *)
(* handle-parity on, Crypto1 off.                                          *)
(***************************************************************************)
C27_TargetInitConfig ==
  (/\ npc = "done" /\ nfcCall.op = "target_init"
   /\ nfcLog[Len(nfcLog)].fn = "target_init") =>
    /\ Configured("NP_EASY_FRAMING", FALSE)
    /\ Configured("NP_ACTIVATE_FIELD", FALSE)
    /\ Configured("NP_ACCEPT_INVALID_FRAMES", FALSE)
    /\ Configured("NP_ACCEPT_MULTIPLE_FRAMES", FALSE)
    /\ Configured("NP_HANDLE_CRC", TRUE)
    /\ Configured("NP_HANDLE_PARITY", TRUE)
    /\ Configured("NP_ACTIVATE_CRYPTO1", FALSE)

\* nfc_initiator_list_passive_targets got past the write of
\* NP_INFINITE_SELECT
Listing ==
  /\ npc \in {"select", "done"}
  /\ nfcCall.op = "list_passive_targets"
  /\ nfcLog[1].res >= 0

(***************************************************************************)
(* C28: when disabling infinite-select succeeds,                           *)
(* nfc_initiator_list_passive_targets returns a count n with               *)
(* 0 <= n <= szTargets, has stored exactly the entries 0..n-1 of the       *)
(* output array, and these differ pairwise; the enumeration stops as soon  *)
(* as a selected target equals an entry already stored, and the loop ends  *)
(* (it makes at most szTargets + 1 selections).                            *)
(***************************************************************************)
C28_ListPassive ==
  Listing =>
    /\ 0 <= nfcCall.szTargetFound /\ nfcCall.szTargetFound <= nfcCall.szTargets
    /\ DOMAIN nfcOut = 0..(nfcCall.szTargetFound - 1)
    /\ \A i, j \in DOMAIN nfcOut : i # j => nfcOut[i] # nfcOut[j]
    /\ nfcCall.lastStored => npc = "done"
    /\ nfcCall.selections <= nfcCall.szTargets + 1
    /\ npc = "done" => nfcCall.ret = nfcCall.szTargetFound

\* with room left in the array, the tag stored first was selected again
\* and ended the enumeration
C28_Witness ==
  /\ Listing /\ npc = "done"
  /\ nfcCall.nmt = "NMT_ISO14443A"
  /\ nfcCall.szTargets = 2 /\ nfcCall.ret = 1
  /\ nfcCall.lastStored

(***************************************************************************)
(* C29: for FeliCa, Jewel and ISO14443B' modulations                       *)
(* nfc_initiator_list_passive_targets stores at most one selected target   *)
(* and returns a count of at most 1, whatever the capacity and the number  *)
(* of tags in the field.                                                   *)
(***************************************************************************)
C29_SingleTarget ==
  (Listing /\ nfcCall.nmt \in {"NMT_FELICA", "NMT_JEWEL", "NMT_ISO14443BI"}) =>
    /\ Cardinality(DOMAIN nfcOut) <= 1
    /\ nfcCall.szTargetFound <= 1
    /\ Cardinality({k \in 1..Len(nfcLog) :
          nfcLog[k].fn = "initiator_select_passive_target"}) <= 2
    /\ nfcCall.szTargetFound = 1 => npc = "done"
    /\ npc = "done" => nfcCall.ret <= 1

C29_Witness ==
  /\ Listing /\ npc = "done"
  /\ nfcCall.nmt = "NMT_FELICA"
  /\ nfcCall.szTargets = 2 /\ nfcCall.field = {1, 2}
  /\ nfcCall.ret = 1

(***************************************************************************)
(* C30: on a PN532-UART handle the 15-byte wake-up sequence                *)
(* 55 55 00 00 00 00 00 FF 03 FD D4 14 01 17 00 is the first thing         *)
(* transmitted on the port, connect gives a usable device only if a reply  *)
(* to it was received, and no command frame is sent on a handle before     *)
(* that exchange is complete.                                              *)
(***************************************************************************)
C30_WakeFirst ==
  /\ wpc = "open" =>
       /\ wake.transmitted =
            <<85, 85, 0, 0, 0, 0, 0, 255, 3, 253, 212, 20, 1, 23, 0>>
       /\ wake.replyRead >= 1
  /\ (wpc # "off" /\ \E k \in 1..Len(io) : io[k].dir = "tx") =>
       /\ wpc = "open"
       /\ wake.transmitted =
            <<85, 85, 0, 0, 0, 0, 0, 255, 3, 253, 212, 20, 1, 23, 0>>
       /\ wake.replyRead >= 1

(***************************************************************************)
(* C31: for every payload P the arygon transport transmits the selector    *)
(* byte '2' (0x32) followed by exactly the frame pn532_uart and pn53x_usb  *)
(* build for P (00 00 FF LEN LCS P DCS 00), |P| + 8 bytes in total.        *)
(***************************************************************************)
C31_ArygonSelectorThenFrame ==
  (driver = "arygon" /\ Len(io) >= 1 /\ io[1].dir = "tx")
    => /\ Len(io[1].bytes) = Len(pbtTx) + 8
       /\ io[1].bytes[1] = 50
       /\ Tail(io[1].bytes) = UartFrame(pbtTx)
       /\ Tail(io[1].bytes) = UsbFrame(pbtTx)

(***************************************************************************)
(* C32: when the response frame of a pn53x_usb call made through           *)
(* pn53x_transceive does not carry the direction byte D5, the transport    *)
(* sets DEISERRFRAME, and that is still the handle's last error when       *)
(* pn53x_transceive returns: the call does not end as a success with last  *)
(* error 0.                                                                *)
(***************************************************************************)
C32_ErrorFrameKept ==
  (pc = "done" /\ driver = "pn53x_usb" /\ layer = "chip"
     /\ Len(io) >= 3 /\ io[3].dir = "rx" /\ Len(io[3].bytes) >= 9
     /\ Len(io[3].bytes) <= BUFFER_LENGTH
     /\ io[3].bytes[6] # 213)
    => /\ drvLastError = DEISERRFRAME
       /\ iLastError = DEISERRFRAME
       /\ ~(ret /\ iLastError = 0)

(***************************************************************************)
(* C33: when dev_pn532_uart_connect fails after rs232_open succeeded (no   *)
(* reply to the wake-up sequence), the port has been closed and its claim  *)
(* sentinel cleared before connect returns, so that no port is left        *)
(* claimed for a later connect.                                            *)
(***************************************************************************)
C33_FailedConnectCloses ==
  /\ (wake.done /\ wake.pdi = "NULL") => ~wake.portOpen
  /\ wpc = "closed" => wake.claimed = {}

(***************************************************************************)
(* C34: two processes that call rs232_open on the same port concurrently   *)
(* never both obtain the port: under every interleaving of the steps of    *)
(* their opens at most one holds an opened port, and a second open that    *)
(* ends while the port is held ends with CLAIMED_SERIAL_PORT.              *)
(***************************************************************************)
C34_OneOpenWins ==
  /\ ~(\A p \in Procs : sp[p].st = "open")
  /\ \A p \in Procs :
       (serCall[p].op = "open" /\ serCall[p].done
          /\ \E q \in Procs \ {p} : sp[q].st = "open")
         => serCall[p].ret \in {"CLAIMED_SERIAL_PORT", "INVALID_SERIAL_PORT"}

(***************************************************************************)
(* C35: whenever no process holds a successfully opened port, the claim    *)
(* sentinel of the port is clear, under every interleaving of open,        *)
(* refused open and close by several processes.                            *)
(***************************************************************************)
C35_NoOwnerNoClaim ==
  (\A p \in Procs : sp[p].st # "open") => ~port.claimed

(***************************************************************************)
(* C36: pn53x_set_reg first reads the register and, for every prior        *)
(* content r, writes (r AND NOT mask) OR value, so that the bits outside   *)
(* the mask are unchanged; when the register read fails, no write based on *)
(* an undefined register value is issued.                                  *)
(***************************************************************************)
C36_MaskedWrite ==
  (rgpc = "done" /\ regCall.cmds # <<>>)
    => /\ regCall.cmds[1] = <<212, 6, regCall.reg>>
       /\ regCall.readOk =>
            /\ Len(regCall.cmds) = 2
            /\ regCall.cmds[2][4] =
                 BitOr(BitAnd(regCall.before, 255 - regCall.mask), regCall.value)
            /\ BitAnd(regCall.cmds[2][4], 255 - regCall.mask) =
                 BitAnd(regCall.before, 255 - regCall.mask)
       /\ ~regCall.readOk => Len(regCall.cmds) = 1

(***************************************************************************)
(* C37: after any sequence of pn53x_set_tx_bits calls the cached ui8TxBits *)
(* equals the value most recently written successfully to the TX-last-bits *)
(* field of the bit-framing register (0 right after connect); a failed     *)
(* register write leaves the cache unchanged, and a request equal to the   *)
(* cached value issues no command to the chip.                             *)
(***************************************************************************)
C37_TxBitsCache ==
  /\ rgpc # "off" => ui8TxBits = txBitsWritten
  /\ (rgpc = "done" /\ regCall.fn = "pn53x_set_tx_bits") =>
       /\ (regCall.cmds # <<>> /\ ~regCall.setRegRes) =>
            /\ ui8TxBits = regCall.cached
            /\ ~regCall.res
       /\ regCall.value = regCall.cached =>
            /\ regCall.cmds = <<>>
            /\ regCall.res
            /\ ui8TxBits = regCall.cached
       /\ (regCall.cmds # <<>> /\ regCall.setRegRes) =>
            /\ ui8TxBits = regCall.value
            /\ BitAnd(regChip["REG_CIU_BIT_FRAMING"], SYMBOL_TX_LAST_BITS) = ui8TxBits

C37_Witness ==
  /\ rgpc = "done" /\ regCall.fn = "pn53x_set_tx_bits"
  /\ regCall.cmds # <<>> /\ ~regCall.setRegRes
  /\ regCall.cached = 5 /\ regCall.value = 1
  /\ ui8TxBits = 5 /\ txBitsWritten = 5

(***************************************************************************)
(* C38: for a frame of n >= 9 bits pn53x_unwrap_frame reads no frame byte  *)
(* at index >= ceil(n/8) and stores exactly ceil((n - floor(n/9))/8) data  *)
(* bytes and as many parity entries, never one more, also when n is a      *)
(* multiple of 9.                                                          *)
(***************************************************************************)
C38_UnwrapWithinFrame ==
  \A n \in {IF bpc = "unwrapped" THEN szFrameBits
            ELSE IF bpc = "air" THEN szTxBits ELSE 0} :
    (n >= 9 /\ unwrapRet)
      => /\ frameRead <= (n + 7) \div 8
         /\ Len(bitRx) = (n - (n \div 9) + 7) \div 8
         /\ Len(bitRxPar) = Len(bitRx)

(***************************************************************************)
(* C39: rs232_receive never stores more bytes in the caller's buffer than  *)
(* the capacity the caller passed in through the length parameter (256 in  *)
(* both UART transports), however many bytes the OS reports available.     *)
(***************************************************************************)
C39_ReceiveWithinCapacity ==
  (rwpc = "done" /\ rwCall.op = "receive" /\ rwCall.readCalled)
    => rwCall.nread <= rwCall.prevLen

(***************************************************************************)
(* C40: nfc_initiator_poll_dep_target always terminates: it makes at most  *)
(* ceil(timeout/300) select attempts of 300 ms each, returns 1 on the      *)
(* first attempt that finds a target, returns the error of the first       *)
(* attempt that fails with anything other than a timeout, and returns 0    *)
(* once the attempts are exhausted (no attempt at all when timeout <= 0).  *)
(***************************************************************************)
PollingDep == npc \in {"dep", "done"} /\ nfcCall.op = "poll_dep_target"

\* ceil(timeout/300), 0 for timeout <= 0
MaxAttempts(timeout) == IF timeout > 0 THEN (timeout + 299) \div 300 ELSE 0

\* the attempt neither found a target nor failed with an error other than
\* a timeout
Undecided(res) == res = 0 \/ res = NFC_ETIMEOUT

\* the attempts made and the value returned, as the claim describes them
PollDepOutcome ==
  LET a == nfcCall.attempts
      n == Len(nfcCall.attempts)
  IN  /\ n <= MaxAttempts(nfcCall.timeout)
      /\ \A k \in 1..n : nfcLog[k + 1].fn = "initiator_select_dep_target"
                         /\ nfcLog[k + 1].timeout = 300
      /\ \A k \in 1..(n - 1) : Undecided(a[k])
      /\ npc = "dep" => (n < MaxAttempts(nfcCall.timeout)
                           /\ \A k \in 1..n : Undecided(a[k]))
      /\ npc = "done" =>
           \/ n >= 1 /\ a[n] = 1 /\ nfcCall.ret = 1
           \/ n >= 1 /\ ~Undecided(a[n]) /\ a[n] < 0 /\ nfcCall.ret = a[n]
           \/ /\ n = MaxAttempts(nfcCall.timeout)
              /\ \A k \in 1..n : Undecided(a[k])
              /\ nfcCall.ret = 0

C40_PollDep == PollingDep => PollDepOutcome

\* C40 as amended: the above when the initial setting of NP_INFINITE_SELECT
\* succeeds; when it fails its error is returned and no attempt is made; in
\* both cases the call terminates.
C40_PollDepAmended ==
  /\ [](PollingDep =>
          IF nfcCall.propRes < 0
            THEN /\ npc = "done"
                 /\ nfcCall.attempts = <<>>
                 /\ Len(nfcLog) = 1
                 /\ nfcCall.ret = nfcCall.propRes
            ELSE PollDepOutcome)
  /\ ((npc = "dep") ~> (npc = "done"))

C40_Witness ==
  /\ PollingDep /\ npc = "done"
  /\ nfcCall.timeout = 900
  /\ nfcCall.attempts = <<NFC_ETIMEOUT, 0, NFC_ETIMEOUT>>
  /\ nfcCall.ret = 0

====
